---- MODULE Spec2Model ----
(***************************************************************************)
(* State-machine model of the face tracking engine                         *)
(* (backend/core/tracker.py, with the store functions of                   *)
(* backend/db/db_utils.py that it calls).                                  *)
(*                                                                         *)
(* The engine is modelled component by component.  Every component has its *)
(* own specification over the same variables; the variables of the other   *)
(* components keep their constructed value in it:                          *)
(*   SpecTripwire  accepted sightings, the tripwire state machine and the  *)
(*                 attendance events it logs                               *)
(* Scores and similarities are integers in hundredths (0.6 is 60),         *)
(* tripwire fractions are integers in percent (0.5 is 50).                 *)
(***************************************************************************)
EXTENDS Integers, Sequences, FiniteSets, TLC

VARIABLES
    \* the persistent store
    users,                   \* table users (employee ids)
    db_faces,                \* table face_embeddings, in the order the store returns it
    attendance_records,      \* table attendance_records
    \* tripwire state machine
    identity_crossing_state, \* self.identity_crossing_state[identity][camera][tripwire]
    global_tracks,           \* self.global_tracks: identity -> GlobalTrack
    last_seen_time,          \* GlobalTrack.last_seen_time per identity, in units of 60 s
    api_forwards,            \* forward tasks started by APILogger.log_attendance_async
    run_hist,                \* history: what each crossing state has observed
    \* identity index
    embeddings,              \* self.embeddings
    labels,                  \* self.labels
    index,                   \* self.index
    embedding_cache,         \* self.embedding_cache
    faiss_index_lock,        \* holder of self.faiss_index_lock
    rb_pc,                   \* position of the maintenance worker inside a rebuild
    updates_since_last_rebuild,
    max_updates_before_rebuild,
    \* resolve calls in flight, one per capture thread
    r_pc, r_emb, r_result,
    \* maintenance worker
    embedding_update_queue,  \* self.embedding_update_queue
    pending_updates,         \* the worker's local batch
    \* temporal smoothing
    track_identities,        \* self.track_identities[camera_id][track_key]
    smooth_out,              \* what the last call for a track key returned
    smooth_hist,             \* history: the votes of a key since its window was cleared
    \* supervisor
    camera_status,           \* self.camera_status
    camera_threads,          \* self.camera_threads: the registered capture thread
    camera_shutdown_events,  \* self.camera_shutdown_events
    stale_loops,             \* a capture loop that was unregistered while alive
    is_running,              \* self.is_running
    tracker_lock,            \* holder of self.tracker_lock
    global_shutdown_flag,    \* self.global_shutdown_flag
    aux_threads,             \* maintenance worker and frame processors
    call,                    \* the control call each API thread is in
    \* attendance logging
    log_call,                \* the _log_event call the capture thread is in
    forward_tasks,           \* the threads started by log_attendance_async
    \* frame pipeline
    frame_queues,            \* self.frame_queues[camera_id]
    result_queues,           \* self.result_queues[camera_id]
    cap_pc,                  \* position of each capture loop
    proc_pc,                 \* position of each frame processor
    \* per-face processing
    latest_tracking_data,    \* self.latest_tracking_data[camera_id]
    kalman_trackers,         \* self.kalman_trackers: the last position fed per identity
    track_history,           \* len(GlobalTrack.embedding_history) per identity
    last_embedding_update,   \* self.last_embedding_update
    now,                     \* time.time(), in units of one cooldown (60 s)
    cycle,                   \* locals of the last capture cycle of each camera
    raw_votes,               \* history: the raw results of E1 per camera since the clock moved
    \* capture threads inside _process_faces, statement by statement
    ct,                      \* position and locals of each capture thread
    global_tracks_lock,      \* holder of self.global_tracks_lock
    crossing_identities,     \* the keys of the dict self.identity_crossing_state
    \* results in the hands of the capture loops of a camera
    held,                    \* the timestamp of the result a loop took and has not applied
    last_applied,            \* history: the timestamp of the result applied last
    det_seq,                 \* detections completed per camera: the timestamps given out
    \* APILogger
    access_token,            \* self.access_token
    token_expiry,            \* self.token_expiry, in units of 300 s
    token_lock,              \* the forward task that holds self.token_lock, 0 when free
    api_now,                 \* time.time() as the forward tasks read it, in units of 300 s
    send,                    \* position and locals of each forward task
    \* MemoryPool and the frame buffers
    frame_pool,              \* self.memory_pool.frame_pool
    allocated,               \* arrays allocated so far; an array is named by its number
    queued_frames,           \* the frame buffers waiting in the frame queue
    enhanced_frame,          \* position and local enhanced_frame of the frame processor
    detecting,               \* the arrays running _detect_faces tasks read
    \* the four re-entrant locks
    lock_owner,              \* the thread that holds each lock
    lt,                      \* position of each thread in its sequence of lock operations
    \* get_status
    status_copy              \* what the last get_status call returned

storeVars == <<users, db_faces, attendance_records>>

tripVars == <<identity_crossing_state, global_tracks, last_seen_time, api_forwards, run_hist>>

idxVars == <<embeddings, labels, index, embedding_cache, faiss_index_lock, rb_pc,
             updates_since_last_rebuild, max_updates_before_rebuild>>

resVars == <<r_pc, r_emb, r_result>>

wrkVars == <<embedding_update_queue, pending_updates>>

smoothVars == <<track_identities, smooth_out, smooth_hist>>

supVars == <<camera_status, camera_threads, camera_shutdown_events, stale_loops, is_running,
             tracker_lock, global_shutdown_flag, aux_threads, call>>

fwdVars == <<log_call, forward_tasks>>

queueVars == <<frame_queues, result_queues, cap_pc, proc_pc>>

faceVars == <<latest_tracking_data, kalman_trackers, track_history, last_embedding_update,
              now, cycle, raw_votes>>

raceVars == <<ct, global_tracks_lock, crossing_identities>>

heldVars == <<held, last_applied, det_seq>>

tokenVars == <<access_token, token_expiry, token_lock, api_now, send>>

poolVars == <<frame_pool, allocated, queued_frames, enhanced_frame, detecting>>

lockVars == <<lock_owner, lt>>

statusVars == <<status_copy>>

pipeVars == <<fwdVars, queueVars, faceVars, raceVars, heldVars, tokenVars, poolVars, lockVars, statusVars>>

vars == <<storeVars, tripVars, idxVars, resVars, wrkVars, smoothVars, supVars, pipeVars>>

(***************************************************************************)
(* Bounds of the model.                                                    *)
(***************************************************************************)
\* rows the attendance table may hold before the model stops taking sightings
MaxAttendance == 2

\* update rows the store keeps per user before it drops the oldest one
\* (20 in db_utils.add_face_embedding, scaled down)
UpdateRowLimit == 1

\* entries the result cache accepts (500 in _compute_embedding_similarity,
\* scaled down)
MaxCacheEntries == 1

\* places of embedding_update_queue (PriorityQueue(maxsize=200), scaled down)
MaxQueue == 2

\* updates the worker's batch may hold before the model stops dequeuing
MaxPending == 6

\* places of a frame queue (queue.Queue(maxsize=5), scaled down)
MaxFrameQueue == 2

\* places of a result queue (queue.Queue(maxsize=10), scaled down)
MaxResultQueue == 3

(***************************************************************************)
(* Embeddings.  A vector is a direction and a magnitude; the inner product *)
(* of two unit vectors is given by a table, in hundredths.                 *)
(***************************************************************************)
\* employee ids that label embeddings
Labels == {"E1", "E2"}

\* directions of the face embeddings seen: dE1 and dE2 are the enrolment
\* faces of E1 and E2, dE1b is a later sighting of E1
Dirs == {"dE1", "dE1b", "dE2"}

Emb(dir, mag) == [dir |-> dir, mag |-> mag]

\* IndexFlatIP inner product of two unit vectors, in hundredths
UnitSim(d1, d2) ==
    IF d1 = d2 THEN 100
    ELSE IF {d1, d2} = {"dE2x", "dE2"} THEN 95
    ELSE IF {d1, d2} = {"dE2x", "dE1b"} THEN 62
    ELSE IF {d1, d2} = {"dE1", "dE1b"} THEN 85
    ELSE IF {d1, d2} = {"dE1b", "dE2"} THEN 60
    ELSE 30

InnerProduct(u, v) == u.mag * v.mag * UnitSim(u.dir, v.dir)

\* np.linalg.norm
Norm(e) == e.mag

\* faiss.normalize_L2 of one row: a zero row is left as it is
NormalizeL2(e) == IF e.mag > 0 THEN [e EXCEPT !.mag = 1] ELSE e

NormalizeRows(m) == [i \in 1..Len(m) |-> NormalizeL2(m[i])]

\* the direction a direction shares its first 16 components with: dE2x is a
\* face that starts as dE1b does and continues as the enrolment face of E2
FirstComponents(dir) == IF dir = "dE2x" THEN "dE1b" ELSE dir

\* the first 64 bytes (16 float32 components) of a raw vector
Head16(e) == <<FirstComponents(e.dir), e.mag>>

\* hash(embedding.tobytes()[:64])
EmbHash(e) == Head16(e)

(***************************************************************************)
(* The store: face_embeddings rows in the order a SELECT returns them.     *)
(***************************************************************************)
FaceRow(identity, e, type) == [user |-> identity, embedding |-> e, embedding_type |-> type]

\* the raw embedding face_enroller stores for a user
EnrolmentFace(identity) == Emb(IF identity = "E1" THEN "dE1" ELSE "dE2", 2)

\* the store as enrolment leaves it for a set of users
EnrolledStore(us) ==
    IF us = {} THEN << >>
    ELSE IF us = {"E1"} THEN << FaceRow("E1", EnrolmentFace("E1"), "enrollment") >>
    ELSE IF us = {"E2"} THEN << FaceRow("E2", EnrolmentFace("E2"), "enrollment") >>
    ELSE << FaceRow("E1", EnrolmentFace("E1"), "enrollment"),
            FaceRow("E2", EnrolmentFace("E2"), "enrollment") >>

IsUpdateOf(row, identity) == row.user = identity /\ row.embedding_type = "update"

\* position of the oldest update row of a user (0 when there is none)
OldestUpdate(faces, identity) ==
    IF \E i \in 1..Len(faces) : IsUpdateOf(faces[i], identity)
    THEN CHOOSE i \in 1..Len(faces) :
            /\ IsUpdateOf(faces[i], identity)
            /\ \A j \in 1..(i - 1) : ~IsUpdateOf(faces[j], identity)
    ELSE 0

RemoveAt(seq, i) == [j \in 1..(Len(seq) - 1) |-> IF j < i THEN seq[j] ELSE seq[j + 1]]

UpdateCount(faces, identity) ==
    Cardinality({i \in 1..Len(faces) : IsUpdateOf(faces[i], identity)})

\* db_utils.add_face_embedding: an update beyond the rolling limit replaces
\* the user's oldest update row
AddFaceEmbedding(faces, identity, e, type) ==
    LET kept == IF type = "update" /\ UpdateCount(faces, identity) >= UpdateRowLimit
                THEN RemoveAt(faces, OldestUpdate(faces, identity))
                ELSE faces
    IN  Append(kept, FaceRow(identity, e, type))

\* db_utils.get_all_face_embeddings
GetAllFaceEmbeddings(faces) ==
    [embeddings |-> [i \in 1..Len(faces) |-> faces[i].embedding],
     labels |-> [i \in 1..Len(faces) |-> faces[i].user]]

\* self.index is None
NoIndex == [built |-> FALSE, vecs |-> << >>]

\* faiss.IndexFlatIP(d), then index.add(m)
NewIndex == [built |-> TRUE, vecs |-> << >>]
IndexAdd(idx, m) == [idx EXCEPT !.vecs = idx.vecs \o m]

\* index.ntotal
NTotal(idx) == Len(idx.vecs)

\* __init__ and _initialize_faiss: the fields of the index after construction
\* over a store
InitializeFaiss(faces) ==
    LET all == GetAllFaceEmbeddings(faces)
    IN  IF Len(all.embeddings) > 0
        THEN [embeddings |-> NormalizeRows(all.embeddings),
              labels |-> all.labels,
              index |-> IndexAdd(NewIndex, NormalizeRows(all.embeddings))]
        ELSE [embeddings |-> << >>, labels |-> all.labels, index |-> NoIndex]

\* no embedding: the thread is not inside a resolve call
NoEmb == Emb("none", 0)

\* a cache entry that is not there
NoResult == [identity |-> "none", score |-> 0]

Unknown == [identity |-> "unknown", score |-> 0]

\* the embeddings capture threads resolve: a sighting of E1, the enrolment
\* face of E2 and an all-zero vector
QueryEmbeddings == {Emb("dE1b", 2), Emb("dE2", 2), Emb("dE1", 0)}

HashKeys == {EmbHash(e) : e \in QueryEmbeddings}

\* capture threads that resolve embeddings
Resolvers == {"cam0", "cam1"}

\* self.embedding_cache = {}
EmptyCache == [h \in HashKeys |-> NoResult]

\* the track keys f"{camera_id}_{identity}" of temporal smoothing
SmoothKeys == {<<0, identity>> : identity \in Labels}

\* a track key that is not in track_identities yet; last_update is kept as
\* its distance from the clock, in half seconds
NoTrackData == [votes |-> << >>, age |-> 0]

NoOutput == [identity |-> "none", num |-> 0, den |-> 1, voted |-> FALSE]

NoVotes == [fresh |-> 0, gaps |-> 0]

\* API threads that call the control operations
Callers == {"api1", "api2"}

\* the threads the constructor starts: the maintenance worker and one frame
\* processor per camera
AuxThreads == {"update_worker", "processor0", "processor1"}

\* a thread that is in no control call
NoCall == [pc |-> "idle", op |-> "none", stack |-> << >>, arg |-> 0 - 1, todo |-> << >>,
           ret |-> "none"]

\* the index part of a freshly constructed tracker over a store, and the
\* empty queues and dictionaries beside it
\* the capture loops that process detection results, one per camera
CaptureThreads == {"capture0", "capture1"}

\* a capture thread that is not inside the loop body of _process_faces
NoSighting == [pc |-> "idle", identity |-> "none", x |-> 0, y |-> 0, missing |-> FALSE]

\* self.last_embedding_update.get(identity, 0) of an identity without entry:
\* the epoch, more than a cooldown before every instant of the clock
NeverUpdated == 0 - 2

\* the threads log_attendance_async starts for two attendance events
ForwardTasks == {1, 2}

\* a forward task that was not started
NoSend == [pc |-> "idle", token |-> "none"]

\* a capture loop that has not finished a cycle yet
NoCycle == [got |-> "none", result |-> << >>, thresh |-> 0]

\* the capture thread is in no _log_event call
NoLog == [pc |-> "idle", identity |-> "none", camera |-> 0 - 1, x |-> 0, y |-> 0,
          event |-> "none", persist |-> "none", tasks_before |-> 0]

ConstructedOver(faces) ==
    /\ db_faces = faces
    /\ embeddings = InitializeFaiss(faces).embeddings
    /\ labels = InitializeFaiss(faces).labels
    /\ index = InitializeFaiss(faces).index
    /\ faiss_index_lock = "free"
    /\ rb_pc = "idle"
    /\ updates_since_last_rebuild = 0
    /\ r_pc = [t \in Resolvers |-> "idle"]
    /\ r_emb = [t \in Resolvers |-> NoEmb]
    /\ r_result = [t \in Resolvers |-> NoResult]
    /\ embedding_update_queue = << >>
    /\ pending_updates = << >>
    /\ track_identities = [k \in SmoothKeys |-> NoTrackData]
    /\ smooth_out = [k \in SmoothKeys |-> NoOutput]
    /\ smooth_hist = [k \in SmoothKeys |-> NoVotes]
    /\ camera_status = [c \in {0, 1} |-> "stopped"]
    /\ camera_threads = [c \in {0, 1} |-> "none"]
    /\ camera_shutdown_events = [c \in {0, 1} |-> "none"]
    /\ stale_loops = [c \in {0, 1} |-> FALSE]
    /\ is_running = FALSE
    /\ tracker_lock = "free"
    /\ global_shutdown_flag = FALSE
    /\ aux_threads = [a \in AuxThreads |-> "alive"]
    /\ call = [t \in Callers |-> NoCall]
    /\ log_call = NoLog
    /\ forward_tasks = << >>
    /\ frame_queues = [c \in {0, 1} |-> << >>]
    /\ result_queues = [c \in {0, 1} |-> << >>]
    /\ cap_pc = [c \in {0, 1} |-> "none"]
    /\ proc_pc = [c \in {0, 1} |-> "get"]
    /\ latest_tracking_data = [c \in {0, 1} |-> << >>]
    /\ kalman_trackers = [i \in {"E1"} |-> "none"]
    /\ track_history = [i \in {"E1"} |-> 0]
    /\ last_embedding_update = [i \in {"E1"} |-> NeverUpdated]
    /\ now = 0
    /\ cycle = [c \in {0, 1} |-> NoCycle]
    /\ raw_votes = [c \in {0, 1} |-> [votes |-> << >>, more |-> FALSE]]
    /\ ct = [t \in CaptureThreads |-> NoSighting]
    /\ global_tracks_lock = "free"
    /\ crossing_identities = {}
    /\ held = [c \in {0, 1} |-> [registered |-> 0, stale |-> 0]]
    /\ last_applied = [c \in {0, 1} |-> 0]
    /\ det_seq = [c \in {0, 1} |-> 0]
    /\ access_token = ""
    /\ token_expiry = 0
    /\ token_lock = 0
    /\ api_now = 0
    /\ send = [i \in ForwardTasks |-> NoSend]
    /\ frame_pool = << >>
    /\ allocated = 0
    /\ queued_frames = << >>
    /\ enhanced_frame = [pc |-> "get", buf |-> 0]
    /\ detecting = {}
    /\ lock_owner = [l \in {"tracks", "update", "cache", "index"} |-> "free"]
    /\ lt = [t \in {"cam0", "cam1", "worker"} |-> 0]
    /\ status_copy = [is_service_running |-> FALSE,
                      camera_statuses |-> [c \in {0, 1} |-> "none"]]

(***************************************************************************)
(* Configuration and inputs.                                               *)
(***************************************************************************)
\* employee ids enrolled when the tracker is constructed
Identities == {"E1"}

CameraIds == {0, 1}

\* smoothed coordinates fed to the tripwire check: both outer sides and the
\* two lines themselves (lines of the configured tripwires are 450 and 550)
Positions == {300, 450, 550, 700}

\* frame.shape of the frames the cameras deliver
FrameShape == [width |-> 1000, height |-> 1000]

\* db_utils.get_camera_configs(): one record per camera, with its tripwires
camera_configs ==
    [c \in CameraIds |->
        IF c = 0
        THEN [id |-> 0,
              tripwires |-> << [name |-> "Entrance", direction |-> "vertical",
                                position |-> 50, spacing |-> 10] >>]
        ELSE [id |-> 1,
              tripwires |-> << [name |-> "WorkAreaEntry", direction |-> "horizontal",
                                position |-> 50, spacing |-> 10] >>]]

TripwireNames(c) ==
    {camera_configs[c].tripwires[i].name : i \in 1..Len(camera_configs[c].tripwires)}

\* the keys (identity, camera, tripwire) of identity_crossing_state
Keys == UNION {{<<i, c, n>> : i \in Identities, n \in TripwireNames(c)} : c \in CameraIds}

\* a key of identity_crossing_state that was not created yet
NoEntry == [state |-> "absent", last_position |-> 0, direction |-> "None"]

\* an identity without a GlobalTrack
NoTrack == [work_status |-> "absent"]

\* lines 971 and 976: last_seen_time of a created or updated GlobalTrack
SeenNow(identity) == [last_seen_time EXCEPT ![identity] = now]

(***************************************************************************)
(* _check_tripwire_crossing                                                *)
(***************************************************************************)
\* int(frame_dim * (position - spacing/2)), fractions in percent
Tripwire1Pos(tripwire, dim) == (dim * (2 * tripwire.position - tripwire.spacing)) \div 200

\* a second line that lies on the first: no dead zone
Tripwire2PosOnLine1(tripwire, dim) == (dim * (2 * tripwire.position - tripwire.spacing)) \div 200

\* int(frame_dim * (position + spacing/2))
Tripwire2Pos(tripwire, dim) == (dim * (2 * tripwire.position + tripwire.spacing)) \div 200

FrameDim(tripwire) ==
    IF tripwire.direction = "vertical" THEN FrameShape.width ELSE FrameShape.height

\* current_pos = center_x for a vertical tripwire, center_y otherwise
CurrentPos(tripwire, center_x, center_y) ==
    IF tripwire.direction = "vertical" THEN center_x ELSE center_y

ZoneA(tripwire) == IF tripwire.direction = "vertical" THEN "left_zone" ELSE "top_zone"
ZoneB(tripwire) == IF tripwire.direction = "vertical" THEN "right_zone" ELSE "bottom_zone"
\* a pending direction that points the wrong way
DirReversed(tripwire) == IF tripwire.direction = "vertical" THEN "right->left" ELSE "bottom->top"

DirAB(tripwire) == IF tripwire.direction = "vertical" THEN "left->right" ELSE "top->bottom"
DirBA(tripwire) == IF tripwire.direction = "vertical" THEN "right->left" ELSE "bottom->top"

\* mutant: the line itself counts as before it
BeforeLine1Loose(current_pos, tripwire1_pos) == current_pos <= tripwire1_pos

\* current_pos < tripwire1_pos
BeforeLine1(current_pos, tripwire1_pos) == current_pos < tripwire1_pos

\* mutant: the line itself counts as past it
PastLine2Loose(current_pos, tripwire2_pos) == current_pos >= tripwire2_pos

\* current_pos > tripwire2_pos
PastLine2(current_pos, tripwire2_pos) == current_pos > tripwire2_pos

\* One pass of the loop body for one tripwire: the new state_info and whether
\* _log_event was called.
TripwireStep(state_info, tripwire, center_x, center_y) ==
    LET dim == FrameDim(tripwire)
        tripwire1_pos == Tripwire1Pos(tripwire, dim)
        tripwire2_pos == Tripwire2Pos(tripwire, dim)
        current_pos == CurrentPos(tripwire, center_x, center_y)
        \* lazily created entry
        info == IF state_info.state = "absent"
                THEN [state |-> "none", last_position |-> current_pos, direction |-> "None"]
                ELSE state_info
        moved ==
            IF info.state = "none"
            THEN IF BeforeLine1(current_pos, tripwire1_pos)
                 THEN [info |-> [info EXCEPT !.state = ZoneA(tripwire),
                                             !.direction = DirAB(tripwire)],
                       emit |-> FALSE]
                 ELSE IF PastLine2(current_pos, tripwire2_pos)
                 THEN [info |-> [info EXCEPT !.state = ZoneB(tripwire),
                                             !.direction = DirBA(tripwire)],
                       emit |-> FALSE]
                 ELSE [info |-> info, emit |-> FALSE]
            ELSE IF info.state = ZoneA(tripwire) /\ info.direction = DirAB(tripwire)
            THEN IF PastLine2(current_pos, tripwire2_pos)
                 THEN [info |-> [info EXCEPT !.state = "none", !.direction = "None"],
                       emit |-> TRUE]
                 ELSE [info |-> info, emit |-> FALSE]
            ELSE IF info.state = ZoneB(tripwire) /\ info.direction = DirBA(tripwire)
            THEN IF BeforeLine1(current_pos, tripwire1_pos)
                 THEN [info |-> [info EXCEPT !.state = "none", !.direction = "None"],
                       emit |-> TRUE]
                 ELSE [info |-> info, emit |-> FALSE]
            ELSE [info |-> info, emit |-> FALSE]
    IN  [info |-> [moved.info EXCEPT !.last_position = current_pos],
         emit |-> moved.emit]

\* the tripwire of camera c named n
TripwireOf(c, n) ==
    LET tws == camera_configs[c].tripwires
    IN  tws[CHOOSE i \in 1..Len(tws) : tws[i].name = n]

\* the names of the tripwires of camera c whose pass calls _log_event, in
\* the order of the loop
EmittedNames(identity, c, center_x, center_y) ==
    LET tws == camera_configs[c].tripwires
    IN  SelectSeq([i \in 1..Len(tws) |-> tws[i].name],
            LAMBDA n : TripwireStep(identity_crossing_state[<<identity, c, n>>],
                                    TripwireOf(c, n), center_x, center_y).emit)

\* identity_crossing_state after the loop over the camera's tripwires
CheckTripwireCrossing(identity, c, center_x, center_y) ==
    [k \in Keys |->
        IF k[1] = identity /\ k[2] = c /\ k[3] \in TripwireNames(c)
        THEN TripwireStep(identity_crossing_state[k], TripwireOf(c, k[3]),
                          center_x, center_y).info
        ELSE identity_crossing_state[k]]

(***************************************************************************)
(* _log_event                                                              *)
(***************************************************************************)
\* event_type = "check_in" if event in ["entry", "WorkAreaEntry"] else "check_out"
EventType(event) == IF event \in {"entry", "WorkAreaEntry"} THEN "check_in" ELSE "check_out"

\* a lookup that is taken to succeed
RecordAssumed(identity) == TRUE

\* db_utils.get_user_by_employee_id(identity) finds a row
UserRecord(identity) == identity \in users

\* the rows _log_event appends for the events of one pass: none when the
\* identity has no user record
LoggedRows(identity, c, events) ==
    IF UserRecord(identity)
    THEN [i \in 1..Len(events) |->
            [user |-> identity, event_type |-> EventType(events[i]), camera_id |-> c]]
    ELSE << >>

(***************************************************************************)
(* _update_work_status: the (camera id, direction) rule table.  No code    *)
(* path calls it: _check_tripwire_crossing calls _log_event directly.      *)
(***************************************************************************)
UpdateWorkStatus(camera_id, direction) ==
    IF camera_id = 0 /\ direction = "left->right"
    THEN [work_status |-> "working", event |-> "WorkAreaEntry"]
    ELSE IF camera_id = 1 /\ direction = "right->left"
    THEN [work_status |-> "working", event |-> "WorkAreaEntry"]
    ELSE IF camera_id = 0 /\ direction = "right->left"
    THEN [work_status |-> "on_break", event |-> "WorkAreaExit"]
    ELSE IF camera_id = 1 /\ direction = "left->right"
    THEN [work_status |-> "on_break", event |-> "WorkAreaExit"]
    ELSE IF camera_id = 0 /\ direction = "top->bottom"
    THEN [work_status |-> "working", event |-> "WorkAreaEntry"]
    ELSE IF camera_id = 1 /\ direction = "bottom->top"
    THEN [work_status |-> "working", event |-> "WorkAreaEntry"]
    ELSE IF camera_id = 0 /\ direction = "bottom->top"
    THEN [work_status |-> "on_break", event |-> "WorkAreaExit"]
    ELSE IF camera_id = 1 /\ direction = "top->bottom"
    THEN [work_status |-> "on_break", event |-> "WorkAreaExit"]
    ELSE [work_status |-> "unchanged", event |-> "none"]

(***************************************************************************)
(* History of a crossing state, kept beside the program's state: a run     *)
(* starts with the observation made while the state is `none`.             *)
(***************************************************************************)
NoHist == [first |-> 0, far |-> 0, events |-> 0, seen_a |-> FALSE, seen_b |-> FALSE,
           total |-> 0]

Cap2(n) == IF n > 2 THEN 2 ELSE n

SideOf(tripwire, pos) ==
    LET dim == FrameDim(tripwire)
    IN  IF pos < Tripwire1Pos(tripwire, dim) THEN "a"
        ELSE IF pos > Tripwire2Pos(tripwire, dim) THEN "b"
        ELSE "m"

FarSide(side) == IF side = "a" THEN "b" ELSE IF side = "b" THEN "a" ELSE "x"

HistStep(h, state_info, tripwire, center_x, center_y, emit) ==
    LET pos == CurrentPos(tripwire, center_x, center_y)
        side == SideOf(tripwire, pos)
        n == IF emit THEN 1 ELSE 0
        starts == state_info.state \in {"absent", "none"}
    IN  [first |-> IF starts THEN pos ELSE h.first,
         far |-> IF starts THEN 0
                 ELSE IF side = FarSide(SideOf(tripwire, h.first)) THEN Cap2(h.far + 1)
                 ELSE h.far,
         events |-> IF starts THEN n ELSE Cap2(h.events + n),
         seen_a |-> h.seen_a \/ side = "a",
         seen_b |-> h.seen_b \/ side = "b",
         total |-> Cap2(h.total + n)]

(***************************************************************************)
(* _process_faces, the body for one accepted sighting (lines 962-980):     *)
(* the GlobalTrack is created or updated, then the tripwires are checked   *)
(* at the smoothed position.                                               *)
(***************************************************************************)
AcceptedSighting(identity, c, center_x, center_y) ==
    LET events == EmittedNames(identity, c, center_x, center_y)
        rows == LoggedRows(identity, c, events)
    IN  /\ api_forwards < MaxAttendance
        /\ global_tracks' =
             [global_tracks EXCEPT ![identity] =
                IF global_tracks[identity].work_status = "absent"
                THEN [work_status |-> "working"]
                ELSE global_tracks[identity]]
        /\ last_seen_time' = SeenNow(identity)
        /\ identity_crossing_state' = CheckTripwireCrossing(identity, c, center_x, center_y)
        /\ attendance_records' = attendance_records \o rows
        /\ api_forwards' = api_forwards + Len(rows)
        /\ UNCHANGED <<users, db_faces, idxVars, resVars, wrkVars, smoothVars, supVars, pipeVars>>
        /\ run_hist' =
             [k \in Keys |->
                IF k[1] = identity /\ k[2] = c /\ k[3] \in TripwireNames(c)
                THEN HistStep(run_hist[k], identity_crossing_state[k], TripwireOf(c, k[3]),
                              center_x, center_y,
                              TripwireStep(identity_crossing_state[k], TripwireOf(c, k[3]),
                                           center_x, center_y).emit)
                ELSE run_hist[k]]

NotOf(identity, row) == row.user # identity

\* db_utils.delete_user, called by the admin API while the tracker runs: the
\* user's face_embeddings and attendance_records rows go with it (ON DELETE
\* CASCADE)
DeleteUser(identity) ==
    /\ identity \in users
    /\ users' = users \ {identity}
    /\ db_faces' = SelectSeq(db_faces, LAMBDA row : NotOf(identity, row))
    /\ attendance_records' = SelectSeq(attendance_records, LAMBDA row : NotOf(identity, row))
    /\ UNCHANGED <<tripVars, smoothVars, supVars, pipeVars, idxVars, resVars, wrkVars>>

\* db_utils.add_user
AddUser(identity) ==
    /\ identity \notin users
    /\ users' = users \cup {identity}
    /\ UNCHANGED <<db_faces, attendance_records, tripVars, smoothVars, supVars, pipeVars, idxVars, resVars, wrkVars>>

InitTripwire ==
    /\ identity_crossing_state = [k \in Keys |-> NoEntry]
    /\ global_tracks = [i \in Identities |-> NoTrack]
    /\ last_seen_time = [i \in Identities |-> 0]
    /\ attendance_records = << >>
    /\ api_forwards = 0
    /\ users = Identities
    /\ run_hist = [k \in Keys |-> NoHist]
    /\ ConstructedOver(EnrolledStore(Identities))
    /\ embedding_cache = EmptyCache
    /\ max_updates_before_rebuild = 20

NextTripwire ==
    \/ \E identity \in Identities, c \in CameraIds, x \in Positions, y \in Positions :
            AcceptedSighting(identity, c, x, y)
    \/ \E identity \in Identities : DeleteUser(identity)
    \/ \E identity \in Identities : AddUser(identity)

SpecTripwire == InitTripwire /\ [][NextTripwire]_vars

(***************************************************************************)
(* Properties of the tripwire state machine.                               *)
(***************************************************************************)
\* the pending direction and zone a run that started on side `side` is in
ArmedState(tripwire, side) == IF side = "a" THEN ZoneA(tripwire) ELSE ZoneB(tripwire)
ArmedDir(tripwire, side) == IF side = "a" THEN DirAB(tripwire) ELSE DirBA(tripwire)

\* C1: for every crossing state, a run that starts in `none` with an
\* observation strictly before line 1 (or strictly past line 2) has emitted
\* no event as long as no observation was past the far line, and at the
\* first observation past the far line it has emitted exactly one event and
\* the state is `none` with no pending direction.
C1_OneEventPerCrossing ==
    \A k \in Keys :
        LET h == run_hist[k]
            s == identity_crossing_state[k]
            tw == TripwireOf(k[2], k[3])
            side == SideOf(tw, h.first)
        IN  (s.state # "absent" /\ side \in {"a", "b"}) =>
                /\ h.far = 0 => /\ h.events = 0
                                /\ s.state = ArmedState(tw, side)
                                /\ s.direction = ArmedDir(tw, side)
                /\ h.far # 0 => /\ h.far = 1
                                /\ h.events = 1
                                /\ s.state = "none"
                                /\ s.direction = "None"

\* a run from 300 to 700 across the vertical tripwire of camera 0 has ended
C1_Witness ==
    LET k == <<"E1", 0, "Entrance">>
    IN  /\ run_hist[k].first = 300
        /\ run_hist[k].far = 1
        /\ run_hist[k].events = 1
        /\ identity_crossing_state[k].last_position = 700
        /\ identity_crossing_state[k].state = "none"

\* C2: a crossing state whose observations never were on both outer sides
\* (strictly before line 1 and strictly past line 2) has emitted no event.
C2_NoEventWithoutFullCrossing ==
    \A k \in Keys :
        ~(run_hist[k].seen_a /\ run_hist[k].seen_b) => run_hist[k].total = 0

\* side a was left for the dead zone (the position is on line 2) and side b
\* was never reached
C2_Witness ==
    \E k \in Keys :
        /\ run_hist[k].seen_a
        /\ ~run_hist[k].seen_b
        /\ identity_crossing_state[k].state = ZoneA(TripwireOf(k[2], k[3]))
        /\ identity_crossing_state[k].last_position = 550
        /\ run_hist[k].total = 0

\* C3: when E1, present in the store, is seen on camera 0 at x = 700 in a
\* run of the "Entrance" tripwire that started at x = 300, that step appends
\* exactly one attendance row, of type check_in, and E1's work_status is
\* `working` after it.
C3_EndToEndCheckIn ==
    [][LET k == <<"E1", 0, "Entrance">>
       IN  (/\ "E1" \in users
            /\ run_hist[k].first = 300
            /\ run_hist[k].far = 0
            /\ identity_crossing_state[k].state = "left_zone"
            /\ run_hist'[k].far = 1
            /\ identity_crossing_state'[k].last_position = 700)
           => /\ attendance_records' = attendance_records \o
                    << [user |-> "E1", event_type |-> "check_in", camera_id |-> 0] >>
              /\ global_tracks'["E1"].work_status = "working"]_vars

\* the crossing of key k happens in this step
CrossingStep(k) ==
    /\ identity_crossing_state[k].state \notin {"absent", "none"}
    /\ identity_crossing_state'[k].state = "none"

\* C4: every crossing of an identity known to the store on camera c with
\* pending direction d appends the attendance row the (camera id, direction)
\* rule table gives (WorkAreaEntry is check_in, WorkAreaExit is check_out)
\* and sets the work_status the table gives.
C4_RuleTableTranslation ==
    [][\A k \in Keys :
          (CrossingStep(k) /\ k[1] \in users) =>
              LET rule == UpdateWorkStatus(k[2], identity_crossing_state[k].direction)
              IN  /\ attendance_records' = attendance_records \o
                        << [user |-> k[1],
                            event_type |-> IF rule.event = "WorkAreaEntry"
                                           THEN "check_in" ELSE "check_out",
                            camera_id |-> k[2]] >>
                  /\ global_tracks'[k[1]].work_status = rule.work_status]_vars

(***************************************************************************)
(* _compute_embedding_similarity                                           *)
(***************************************************************************)
\* tuning_settings.get('recognition_threshold', 0.6), in hundredths
RecognitionThreshold == 60

\* score > threshold
AboveThreshold(score) == score > RecognitionThreshold

\* k = min(3, len(self.labels))
SearchK(lbls) == IF Len(lbls) < 3 THEN Len(lbls) ELSE 3

\* what index.search returns in the places beyond ntotal
Padding == [score |-> -1000000, idx |-> -1]

\* the place of S with the highest inner product, the lowest place on a tie
BestPlace(idx, q, S) ==
    CHOOSE i \in S :
        \A j \in S : \/ InnerProduct(q, idx.vecs[i]) > InnerProduct(q, idx.vecs[j])
                     \/ /\ InnerProduct(q, idx.vecs[i]) = InnerProduct(q, idx.vecs[j])
                        /\ i <= j

RECURSIVE TopK(_, _, _, _)
TopK(idx, q, S, k) ==
    IF k = 0 THEN << >>
    ELSE IF S = {} THEN <<Padding>> \o TopK(idx, q, S, k - 1)
    ELSE LET b == BestPlace(idx, q, S)
         IN  << [score |-> InnerProduct(q, idx.vecs[b]), idx |-> b - 1] >>
                \o TopK(idx, q, S \ {b}, k - 1)

\* index.search(q, k): k (score, position) pairs by descending score,
\* positions counted from 0
IndexSearch(idx, q, k) == TopK(idx, q, 1..NTotal(idx), k)

SetMax(S) == CHOOSE m \in S : \A n \in S : n <= m

\* lines 558-573: the per-identity maximum over the pairs that pass the
\* threshold, and the first identity that has the highest one
ResultOf(results, lbls) ==
    LET surv == SelectSeq(results,
                          LAMBDA r : AboveThreshold(r.score) /\ r.idx < Len(lbls))
        ident(i) == lbls[surv[i].idx + 1]
        weighted(id) == SetMax({0} \cup {surv[i].score : i \in {j \in 1..Len(surv) : ident(j) = id}})
        best == CHOOSE i \in 1..Len(surv) :
                    /\ \A j \in 1..Len(surv) : weighted(ident(j)) <= weighted(ident(i))
                    /\ \A j \in 1..(i - 1) : weighted(ident(j)) < weighted(ident(i))
    IN  IF Len(surv) = 0 THEN Unknown
        ELSE [identity |-> ident(best), score |-> weighted(ident(best))]

\* the section under faiss_index_lock (lines 541-576) for embedding e:
\* its result, and whether the call goes on to the cache insertion
SearchOutcome(e) ==
    IF ~index.built \/ NTotal(index) = 0 \/ Len(labels) = 0
    THEN [result |-> Unknown, cached |-> FALSE]
    ELSE IF ~(Norm(e) > 0)
    THEN [result |-> Unknown, cached |-> FALSE]
    ELSE [result |-> ResultOf(IndexSearch(index, NormalizeL2(e), SearchK(labels)), labels),
          cached |-> TRUE]

CacheSize == Cardinality({h \in HashKeys : embedding_cache[h] # NoResult})

\* a size test that always passes
CacheAlwaysRoom == TRUE

\* len(self.embedding_cache) < 500
CacheHasRoom == CacheSize < MaxCacheEntries

\* lines 533-540: the call starts and looks the hash up; a hit returns
ResolveCall(t, e) ==
    /\ r_pc[t] = "idle"
    /\ r_emb' = [r_emb EXCEPT ![t] = e]
    /\ IF embedding_cache[EmbHash(e)] # NoResult
       THEN /\ r_result' = [r_result EXCEPT ![t] = embedding_cache[EmbHash(e)]]
            /\ r_pc' = [r_pc EXCEPT ![t] = "return"]
       ELSE /\ r_pc' = [r_pc EXCEPT ![t] = "search"]
            /\ UNCHANGED r_result
    /\ UNCHANGED <<storeVars, tripVars, smoothVars, supVars, pipeVars, idxVars, wrkVars>>

\* lines 541-576, under faiss_index_lock
ResolveSearch(t) ==
    /\ r_pc[t] = "search"
    /\ faiss_index_lock = "free"
    /\ r_result' = [r_result EXCEPT ![t] = SearchOutcome(r_emb[t]).result]
    /\ r_pc' = [r_pc EXCEPT ![t] = IF SearchOutcome(r_emb[t]).cached THEN "store" ELSE "return"]
    /\ UNCHANGED <<storeVars, tripVars, smoothVars, supVars, pipeVars, idxVars, wrkVars, r_emb>>

\* lines 577-581, under embedding_cache_lock
ResolveStore(t) ==
    /\ r_pc[t] = "store"
    /\ embedding_cache' =
         IF CacheHasRoom
         THEN [embedding_cache EXCEPT ![EmbHash(r_emb[t])] = r_result[t]]
         ELSE embedding_cache
    /\ r_pc' = [r_pc EXCEPT ![t] = "return"]
    /\ UNCHANGED <<storeVars, tripVars, smoothVars, supVars, pipeVars, wrkVars, embeddings, labels, index, faiss_index_lock, rb_pc,
                   updates_since_last_rebuild, max_updates_before_rebuild, r_emb, r_result>>

\* the caller has taken the result
ResolveReturn(t) ==
    /\ r_pc[t] = "return"
    /\ r_pc' = [r_pc EXCEPT ![t] = "idle"]
    /\ r_emb' = [r_emb EXCEPT ![t] = NoEmb]
    /\ r_result' = [r_result EXCEPT ![t] = NoResult]
    /\ UNCHANGED <<storeVars, tripVars, smoothVars, supVars, pipeVars, idxVars, wrkVars>>

(***************************************************************************)
(* _process_pending_updates: the flush of a batch and the index rebuild.   *)
(***************************************************************************)
\* self.batch_update_threshold
BatchUpdateThreshold == 5

\* the update _process_faces submits for an accepted sighting of E1 whose
\* score is above 0.8: the identity and the raw embedding
SightingUpdate == [identity |-> "E1", embedding |-> Emb("dE1b", 2)]

BatchOf(n) == [i \in 1..n |-> SightingUpdate]

\* lines 736-742: every update of the batch whose identity has a user record
\* is written to the store as an update embedding
RECURSIVE Persist(_, _)
Persist(faces, batch) ==
    IF batch = << >> THEN faces
    ELSE Persist(IF UserRecord(Head(batch).identity)
                 THEN AddFaceEmbedding(faces, Head(batch).identity,
                                       Head(batch).embedding, "update")
                 ELSE faces,
                 Tail(batch))

\* the counter is compared with max_updates_before_rebuild only; the model
\* stops counting this far above it
CounterCap == max_updates_before_rebuild + BatchUpdateThreshold

Counted(n) == IF n > CounterCap THEN CounterCap ELSE n

\* a rebuild condition that does not wait for max_updates_before_rebuild
RebuildDueEarly(count) == count >= 1

\* line 744: self.updates_since_last_rebuild >= self.max_updates_before_rebuild
RebuildDue(count) == count >= max_updates_before_rebuild

\* lines 735-750: the batch is persisted and counted; when the counter has
\* reached max_updates_before_rebuild and the store returns embeddings, the
\* rebuild starts: under faiss_index_lock the embedding matrix and the label
\* list are replaced.  Otherwise the call returns and the worker loop drops
\* the batch.
ProcessPendingUpdates(batch) ==
    LET faces == Persist(db_faces, batch)
        count == Counted(updates_since_last_rebuild + Len(batch))
        new == GetAllFaceEmbeddings(faces)
    IN  /\ faiss_index_lock = "free"
        /\ db_faces' = faces
        /\ updates_since_last_rebuild' = count
        /\ IF RebuildDue(count) /\ Len(new.embeddings) > 0
           THEN /\ faiss_index_lock' = "worker"
                /\ embeddings' = new.embeddings
                /\ labels' = new.labels
                /\ rb_pc' = "normalize"
                /\ UNCHANGED pending_updates
           ELSE /\ rb_pc' = "idle"
                /\ pending_updates' = << >>
                /\ UNCHANGED <<faiss_index_lock, embeddings, labels>>
        /\ UNCHANGED <<index, embedding_cache, max_updates_before_rebuild>>

\* line 751: faiss.normalize_L2(self.embeddings)
RebuildNormalize ==
    /\ rb_pc = "normalize"
    /\ embeddings' = NormalizeRows(embeddings)
    /\ rb_pc' = "new_index"
    /\ UNCHANGED <<storeVars, tripVars, smoothVars, supVars, pipeVars, resVars, wrkVars, labels, index, embedding_cache,
                   faiss_index_lock, updates_since_last_rebuild, max_updates_before_rebuild>>

\* line 752: self.index = faiss.IndexFlatIP(d)
RebuildNewIndex ==
    /\ rb_pc = "new_index"
    /\ index' = NewIndex
    /\ rb_pc' = "add"
    /\ UNCHANGED <<storeVars, tripVars, smoothVars, supVars, pipeVars, resVars, wrkVars, embeddings, labels, embedding_cache,
                   faiss_index_lock, updates_since_last_rebuild, max_updates_before_rebuild>>

\* line 753: self.index.add(self.embeddings)
RebuildAdd ==
    /\ rb_pc = "add"
    /\ index' = IndexAdd(index, embeddings)
    /\ rb_pc' = "clear_cache"
    /\ UNCHANGED <<storeVars, tripVars, smoothVars, supVars, pipeVars, resVars, wrkVars, embeddings, labels, embedding_cache,
                   faiss_index_lock, updates_since_last_rebuild, max_updates_before_rebuild>>

\* lines 754-757: the cache is cleared, still under faiss_index_lock; the
\* lock is released and the counter reset; back in the worker loop the batch
\* is dropped
RebuildClearCache ==
    /\ rb_pc = "clear_cache"
    /\ embedding_cache' = EmptyCache
    /\ faiss_index_lock' = "free"
    /\ updates_since_last_rebuild' = 0
    /\ pending_updates' = << >>
    /\ rb_pc' = "idle"
    /\ UNCHANGED <<storeVars, tripVars, smoothVars, supVars, pipeVars, resVars, embeddings, labels, index,
                   embedding_update_queue, max_updates_before_rebuild>>

\* normalize_L2, IndexFlatIP or index.add raises: the with-statement releases
\* the lock and the exception leaves _process_pending_updates, which has no
\* handler; nothing that was assigned is taken back, and the handler of the
\* worker loop (line 727) keeps the batch
RebuildRaises ==
    /\ rb_pc \in {"normalize", "new_index", "add"}
    /\ faiss_index_lock' = "free"
    /\ rb_pc' = "idle"
    /\ UNCHANGED <<storeVars, tripVars, smoothVars, supVars, pipeVars, resVars, wrkVars, embeddings, labels, index, embedding_cache,
                   updates_since_last_rebuild, max_updates_before_rebuild>>

\* a flush of the maintenance worker with a batch of n updates
FlushBatch(n) ==
    /\ rb_pc = "idle"
    /\ ProcessPendingUpdates(BatchOf(n))
    /\ UNCHANGED <<users, attendance_records, tripVars, smoothVars, supVars, pipeVars, resVars, embedding_update_queue>>

\* batch lengths the index model flushes
FlushSizes == {1, 2}

\* the stores the index model is constructed over
InitialUsers == SUBSET Labels

InitIndex ==
    /\ \E us \in InitialUsers : users = us /\ ConstructedOver(EnrolledStore(us))
    /\ embedding_cache = EmptyCache
    /\ max_updates_before_rebuild = 2
    /\ attendance_records = << >>
    /\ identity_crossing_state = [k \in Keys |-> NoEntry]
    /\ global_tracks = [i \in Identities |-> NoTrack]
    /\ last_seen_time = [i \in Identities |-> 0]
    /\ api_forwards = 0
    /\ run_hist = [k \in Keys |-> NoHist]

NextIndex ==
    \/ \E t \in Resolvers, e \in QueryEmbeddings : ResolveCall(t, e)
    \/ \E t \in Resolvers : ResolveSearch(t)
    \/ \E t \in Resolvers : ResolveStore(t)
    \/ \E t \in Resolvers : ResolveReturn(t)
    \/ \E n \in FlushSizes : FlushBatch(n)
    \/ RebuildNormalize
    \/ RebuildNewIndex
    \/ RebuildAdd
    \/ RebuildClearCache
    \/ RebuildRaises

SpecIndex == InitIndex /\ [][NextIndex]_vars

(***************************************************************************)
(* _embedding_update_worker and the producer side in _process_faces.       *)
(***************************************************************************)
\* (priority, update) with priority = -score, in hundredths, for the sighting
\* of E1 (score 0.85)
QueueItem == [priority |-> 0 - 85, update |-> SightingUpdate]

\* the place PriorityQueue.get takes: the lowest priority value, the oldest
\* on a tie
GetPlace(q) ==
    CHOOSE i \in 1..Len(q) :
        \A j \in 1..Len(q) : \/ q[i].priority < q[j].priority
                             \/ q[i].priority = q[j].priority /\ i <= j

\* _process_faces, lines 981-995: put with a timeout; a full queue drops the
\* update.  embedding_update_cooldown is taken as 0, so that updates of one
\* identity may follow each other.
SubmitUpdate ==
    /\ Len(embedding_update_queue) < MaxQueue
    /\ embedding_update_queue' = Append(embedding_update_queue, QueueItem)
    /\ UNCHANGED <<storeVars, tripVars, smoothVars, supVars, pipeVars, idxVars, resVars, pending_updates>>

\* lines 713-716: an update is taken from the queue into the batch
WorkerGet ==
    /\ rb_pc = "idle"
    /\ ~global_shutdown_flag
    /\ aux_threads["update_worker"] = "alive"
    /\ embedding_update_queue # << >>
    /\ Len(pending_updates) < MaxPending
    /\ pending_updates' = Append(pending_updates,
                                 embedding_update_queue[GetPlace(embedding_update_queue)].update)
    /\ embedding_update_queue' = RemoveAt(embedding_update_queue,
                                          GetPlace(embedding_update_queue))
    /\ rb_pc' = "check"
    /\ UNCHANGED <<storeVars, tripVars, smoothVars, supVars, pipeVars, resVars, embeddings, labels, index, embedding_cache,
                   faiss_index_lock, updates_since_last_rebuild, max_updates_before_rebuild>>

\* lines 723-726: after a get the batch is flushed when it has
\* batch_update_threshold updates or the last flush is more than 5 s ago
WorkerCheck(elapsed) ==
    /\ rb_pc = "check"
    /\ IF Len(pending_updates) >= BatchUpdateThreshold \/ elapsed
       THEN ProcessPendingUpdates(pending_updates)
       ELSE /\ rb_pc' = "idle"
            /\ UNCHANGED <<db_faces, embeddings, labels, index, embedding_cache,
                           faiss_index_lock, updates_since_last_rebuild,
                           max_updates_before_rebuild, pending_updates>>
    /\ UNCHANGED <<users, attendance_records, tripVars, smoothVars, supVars, pipeVars, resVars, embedding_update_queue>>

\* lines 717-722: the get timed out on an empty queue, the batch is not
\* empty and the last flush is more than 2 s ago
WorkerEmpty ==
    /\ rb_pc = "idle"
    /\ ~global_shutdown_flag
    /\ aux_threads["update_worker"] = "alive"
    /\ embedding_update_queue = << >>
    /\ pending_updates # << >>
    /\ ProcessPendingUpdates(pending_updates)
    /\ UNCHANGED <<users, attendance_records, tripVars, smoothVars, supVars, pipeVars, resVars, embedding_update_queue>>

\* the cache after the capture threads resolved the sighting of E1 over the
\* index constructed from a store
WarmCache(faces) ==
    LET built == InitializeFaiss(faces)
        q == Emb("dE1b", 2)
    IN  [h \in HashKeys |->
            IF h = EmbHash(q)
            THEN ResultOf(IndexSearch(built.index, NormalizeL2(q), SearchK(built.labels)),
                          built.labels)
            ELSE NoResult]

\* the worker starts on a constructed tracker whose capture threads may have
\* resolved a sighting already
InitWorker ==
    /\ users = Identities
    /\ ConstructedOver(EnrolledStore(Identities))
    /\ embedding_cache \in {EmptyCache, WarmCache(EnrolledStore(Identities))}
    /\ max_updates_before_rebuild = 20
    /\ attendance_records = << >>
    /\ identity_crossing_state = [k \in Keys |-> NoEntry]
    /\ global_tracks = [i \in Identities |-> NoTrack]
    /\ last_seen_time = [i \in Identities |-> 0]
    /\ api_forwards = 0
    /\ run_hist = [k \in Keys |-> NoHist]

NextWorker ==
    \/ SubmitUpdate
    \/ WorkerGet
    \/ \E elapsed \in BOOLEAN : WorkerCheck(elapsed)
    \/ WorkerEmpty
    \/ RebuildNormalize
    \/ RebuildNewIndex
    \/ RebuildAdd
    \/ RebuildClearCache
    \/ RebuildRaises
    \/ \E identity \in Identities : DeleteUser(identity)
    \/ \E identity \in Identities : AddUser(identity)

SpecWorker == InitWorker /\ [][NextWorker]_vars

(***************************************************************************)
(* Properties of the identity index.                                       *)
(***************************************************************************)
\* the three fields describe one set of store rows: row i of the matrix is
\* the normalised vector the index holds at place i, and labels[i] names it
TripleConsistent ==
    /\ Len(embeddings) = Len(labels)
    /\ NTotal(index) = Len(labels)
    /\ index.vecs = embeddings
    /\ \A i \in 1..Len(embeddings) : embeddings[i] = NormalizeL2(embeddings[i])
    /\ index.built <=> Len(labels) > 0

\* the search of thread t (the section under faiss_index_lock) runs in this step
SearchStep(t) == r_pc[t] = "search" /\ r_pc'[t] # "search"

\* C5: every search of a resolve call reads a consistent triple: the label
\* list, the matrix and the index it sees belong to the same store contents.
C5_SearchSeesWholeTriple ==
    [][\A t \in Resolvers : SearchStep(t) => TripleConsistent]_vars

\* C6: whenever the index lock is free, whatever rebuild attempts came
\* before (completed, failed part-way, or skipped for an empty store), the
\* label list, the matrix and the index describe the same store contents and
\* the index holds as many vectors as there are labels.
C6_SwapAllOrNothing == faiss_index_lock = "free" => TripleConsistent

\* the similarity of a query to an enrolled identity: the highest inner
\* product of the normalised query with a row of that identity
RowsOf(identity) == {i \in 1..Len(labels) : labels[i] = identity}

Similarity(e, identity) == SetMax({InnerProduct(NormalizeL2(e), index.vecs[i]) : i \in RowsOf(identity)})

Enrolled == {labels[i] : i \in 1..Len(labels)}

\* C8: on a cache miss over a consistent index, a query whose similarity to
\* exactly one enrolled identity is at or above the recognition threshold
\* and below it for every other enrolled identity resolves to that identity
\* with that similarity as the score.
C8_ThresholdInclusive ==
    [][\A t \in Resolvers : \A identity \in Labels :
          (/\ SearchStep(t)
           /\ TripleConsistent
           /\ Norm(r_emb[t]) > 0
           /\ identity \in Enrolled
           /\ Similarity(r_emb[t], identity) >= RecognitionThreshold
           /\ \A other \in Enrolled \ {identity} :
                  Similarity(r_emb[t], other) < RecognitionThreshold)
          => r_result'[t] = [identity |-> identity,
                             score |-> Similarity(r_emb[t], identity)]]_vars

\* self.index is None or holds no vector
IndexEmpty == ~index.built \/ NTotal(index) = 0

\* C9: a resolve call that returns while the index is empty returns
\* ("unknown", 0.0), whether it returns from the cache lookup or from the
\* empty-index check.
C9_EmptyIndexResolvesUnknown ==
    [][\A t \in Resolvers :
          (r_pc[t] \in {"idle", "search"} /\ r_pc'[t] = "return" /\ IndexEmpty)
          => r_result'[t] = Unknown]_vars

(***************************************************************************)
(* Properties of the rebuild schedule.                                     *)
(***************************************************************************)
\* _process_pending_updates runs in this step
FlushStep ==
    /\ rb_pc \in {"idle", "check"}
    /\ rb_pc' = "normalize" \/ (pending_updates # << >> /\ pending_updates' = << >>)

RebuildStarts == rb_pc \in {"idle", "check"} /\ rb_pc' = "normalize"

RebuildCompletes == rb_pc = "clear_cache" /\ rb_pc' = "idle"

\* C7 as stated: a rebuild starts when the counter is exactly
\* max_updates_before_rebuild, not at a lower and not at a higher count.
C7_RebuildAtExactCount ==
    [][RebuildStarts => updates_since_last_rebuild' = max_updates_before_rebuild]_vars

\* C7, amended: a flush starts a rebuild exactly when the counter, which
\* grows by whole batches, has reached max_updates_before_rebuild or passed
\* it and the store returns embeddings; the rebuild takes the label list and
\* the matrix from the store; a flush that starts none leaves index and cache
\* alone; and the step that completes a rebuild leaves a consistent triple,
\* an empty cache and a counter of 0.
C7_RebuildAtOrAfterThreshold ==
    [][/\ FlushStep =>
              (rb_pc' = "normalize" <=>
                  /\ updates_since_last_rebuild' >= max_updates_before_rebuild
                  /\ Len(db_faces') > 0)
       /\ (FlushStep /\ rb_pc' # "normalize") =>
              UNCHANGED <<embeddings, labels, index, embedding_cache>>
       /\ RebuildStarts =>
              /\ labels' = GetAllFaceEmbeddings(db_faces').labels
              /\ embeddings' = GetAllFaceEmbeddings(db_faces').embeddings
       /\ RebuildCompletes =>
              /\ TripleConsistent'
              /\ labels' = labels
              /\ embedding_cache' = EmptyCache
              /\ updates_since_last_rebuild' = 0]_vars

\* a rebuild that started at a count above max_updates_before_rebuild has
\* filled the new index and is about to clear a cache that holds an entry
C7_Witness ==
    /\ rb_pc = "clear_cache"
    /\ updates_since_last_rebuild > max_updates_before_rebuild
    /\ embedding_cache # EmptyCache
    /\ NTotal(index) = Len(labels)

(***************************************************************************)
(* _temporal_smoothing.  Time advances in half seconds; last_update is     *)
(* kept as the distance of the clock from it, which is all the code reads. *)
(***************************************************************************)
\* deque(maxlen=5)
VotesMaxLen == 5

\* len(track_data['votes']) >= 3
MinVotes == 3

\* the gap of 2.0 s, in half seconds
SmoothingGap == 4

\* ages above the gap are not told apart
AgeCap == SmoothingGap + 1

\* scores the votes for an identity carry, in hundredths
VoteScores(identity) == IF identity = "E1" THEN {70, 90} ELSE {80}

\* a smoothing that never finds a gap
GapNever(age) == FALSE

\* current_time - track_data['last_update'] > 2.0
GapExceeded(age) == age > SmoothingGap

\* deque.append with maxlen: the oldest vote falls out of a full window
DequeAppend(votes, v) ==
    IF Len(votes) = VotesMaxLen THEN Append(Tail(votes), v) ELSE Append(votes, v)

RECURSIVE SumScores(_)
SumScores(votes) == IF votes = << >> THEN 0 ELSE Head(votes).score + SumScores(Tail(votes))

\* lines 596-606: the identity with the highest per-identity maximum (the
\* first one on a tie) and min(that maximum, the average of the window),
\* the average as a fraction
VotedOutput(votes) ==
    LET best(id) == SetMax({votes[i].score : i \in {j \in 1..Len(votes) : votes[j].identity = id}})
        first == CHOOSE i \in 1..Len(votes) :
                     /\ \A j \in 1..Len(votes) :
                            best(votes[j].identity) <= best(votes[i].identity)
                     /\ \A j \in 1..(i - 1) :
                            best(votes[j].identity) < best(votes[i].identity)
        top == best(votes[first].identity)
        total == SumScores(votes)
    IN  IF top * Len(votes) <= total
        THEN [identity |-> votes[first].identity, num |-> top, den |-> 1, voted |-> TRUE]
        ELSE [identity |-> votes[first].identity, num |-> total, den |-> Len(votes),
              voted |-> TRUE]

\* the window after the call: cleared first when the gap is exceeded
WindowAfter(track_data, identity, score) ==
    DequeAppend(IF GapExceeded(track_data.age) THEN << >> ELSE track_data.votes,
                [identity |-> identity, score |-> score])

\* what the call returns
SmoothedOutput(votes, identity, score) ==
    IF Len(votes) >= MinVotes
    THEN VotedOutput(votes)
    ELSE [identity |-> identity, num |-> score, den |-> 1, voted |-> FALSE]

Capped(n, cap) == IF n > cap THEN cap ELSE n

\* _temporal_smoothing(identity, score, camera_id)
TemporalSmoothing(identity, score, camera_id) ==
    LET k == <<camera_id, identity>>
        votes == WindowAfter(track_identities[k], identity, score)
        gap == track_identities[k].age > SmoothingGap
    IN  /\ track_identities' = [track_identities EXCEPT ![k] = [votes |-> votes, age |-> 0]]
        /\ smooth_out' = [smooth_out EXCEPT ![k] = SmoothedOutput(votes, identity, score)]
        /\ smooth_hist' = [smooth_hist EXCEPT ![k] =
                              [fresh |-> IF gap THEN 1
                                         ELSE Capped(smooth_hist[k].fresh + 1, VotesMaxLen + 1),
                               gaps |-> IF gap THEN 1 ELSE smooth_hist[k].gaps]]
        /\ UNCHANGED <<storeVars, tripVars, idxVars, resVars, wrkVars, supVars, pipeVars>>

\* half a second passes
Tick ==
    /\ \E k \in SmoothKeys :
          track_identities[k].votes # << >> /\ track_identities[k].age < AgeCap
    /\ track_identities' =
         [k \in SmoothKeys |->
            IF track_identities[k].votes # << >>
            THEN [track_identities[k] EXCEPT !.age = Capped(@ + 1, AgeCap)]
            ELSE track_identities[k]]
    /\ UNCHANGED <<storeVars, tripVars, idxVars, resVars, wrkVars, supVars, pipeVars, smooth_out,
                   smooth_hist>>

InitSmooth == InitTripwire

NextSmooth ==
    \/ \E identity \in Labels : \E score \in VoteScores(identity) :
            TemporalSmoothing(identity, score, 0)
    \/ Tick

SpecSmooth == InitSmooth /\ [][NextSmooth]_vars

(***************************************************************************)
(* Properties of temporal smoothing.                                       *)
(***************************************************************************)
\* C10: for every track key, the window holds exactly the votes that came
\* since the last gap of more than 2 s (at most the last 5), all of them for
\* the identity of the key; the output is a voted one exactly when at least
\* 3 votes came since the last gap, and the output identity is the identity
\* of the key.
C10_SmoothingWindow ==
    \A k \in SmoothKeys :
        smooth_hist[k].fresh > 0 =>
            /\ Len(track_identities[k].votes) = Capped(smooth_hist[k].fresh, VotesMaxLen)
            /\ \A i \in 1..Len(track_identities[k].votes) :
                   track_identities[k].votes[i].identity = k[2]
            /\ smooth_out[k].voted <=> smooth_hist[k].fresh >= MinVotes
            /\ smooth_out[k].identity = k[2]

\* after a gap cleared the window of E1, the third vote since the gap was
\* just cast and the output is voted again
C10_Witness ==
    LET k == <<0, "E1">>
    IN  /\ smooth_hist[k].gaps = 1
        /\ smooth_hist[k].fresh = MinVotes
        /\ track_identities[k].age = 0
        /\ smooth_out[k].voted
        /\ smooth_out[k].identity = "E1"

(***************************************************************************)
(* The supervisor: start_camera, stop_camera, start_tracking,              *)
(* stop_tracking and shutdown, called from API threads.  tracker_lock is   *)
(* a threading.Lock: a thread that holds it and asks for it again waits.   *)
(***************************************************************************)
\* a camera id that is not in camera_configs
UnknownCamera == 9

CameraArgs == CameraIds \cup {UnknownCamera}

\* list(self.camera_configs.keys())
ConfiguredCameras == <<0, 1>>

\* list(self.camera_threads.keys())
RegisteredCameras == SelectSeq(ConfiguredCameras, LAMBDA c : camera_threads[c] # "none")

\* a status test that never finds a camera running
NeverRunning(c) == FALSE

\* self.camera_status.get(camera_id) == 'running'
IsRunning(c) == c \in CameraIds /\ camera_status[c] = "running"

\* the call returns value: the frame is popped and the caller goes on where
\* the frame below it continues
Pop(cr, value) ==
    LET rest == SubSeq(cr.stack, 1, Len(cr.stack) - 1)
    IN  [cr EXCEPT !.stack = rest,
                   !.ret = value,
                   !.pc = IF rest = << >> THEN "returned"
                          ELSE IF rest[Len(rest)] = "start_tracking" THEN "start_loop"
                          ELSE IF rest[Len(rest)] = "stop_tracking" THEN "stop_loop"
                          ELSE "shutdown_aux"]

\* an API thread enters a control operation
Call(t, op, c) ==
    /\ call[t].pc = "idle"
    /\ call' = [call EXCEPT ![t] = [pc |-> op, op |-> op, stack |-> <<op>>, arg |-> c,
                                    todo |-> << >>, ret |-> "none"]]
    /\ UNCHANGED <<storeVars, tripVars, idxVars, resVars, wrkVars, smoothVars, pipeVars, camera_status,
                   camera_threads, camera_shutdown_events, stale_loops, is_running,
                   tracker_lock, global_shutdown_flag, aux_threads>>

\* start_camera, lines 281-304: the whole body runs under tracker_lock
StartCamera(t) ==
    LET c == call[t].arg
    IN  /\ call[t].pc = "start_camera"
        /\ tracker_lock = "free"
        /\ IF c \notin CameraIds \/ IsRunning(c)
           THEN /\ call' = [call EXCEPT ![t] = Pop(call[t], "False")]
                /\ UNCHANGED <<camera_status, camera_threads, camera_shutdown_events>>
           ELSE /\ camera_shutdown_events' = [camera_shutdown_events EXCEPT ![c] = "clear"]
                /\ camera_threads' = [camera_threads EXCEPT ![c] = "alive"]
                /\ camera_status' = [camera_status EXCEPT ![c] = "running"]
                /\ call' = [call EXCEPT ![t] = Pop(call[t], "True")]
        \* thread.start(): the new capture loop is at its first statement
        /\ cap_pc' = IF c \notin CameraIds \/ IsRunning(c)
                     THEN cap_pc ELSE [cap_pc EXCEPT ![c] = "read"]
        /\ tracker_lock' = "free"
        /\ UNCHANGED <<storeVars, tripVars, idxVars, resVars, wrkVars, smoothVars, fwdVars, faceVars, raceVars,
                       frame_queues, result_queues, proc_pc, stale_loops,
                       is_running, global_shutdown_flag, aux_threads, heldVars, tokenVars, poolVars, lockVars, statusVars>>

\* stop_camera, lines 306-319: the lock is taken; a camera that is not
\* running returns False, otherwise the shutdown signal is set and the
\* thread is joined with the lock held
StopCamera(t) ==
    LET c == call[t].arg
    IN  /\ call[t].pc = "stop_camera"
        /\ tracker_lock = "free"
        /\ IF ~IsRunning(c)
           THEN /\ call' = [call EXCEPT ![t] = Pop(call[t], "False")]
                /\ UNCHANGED <<camera_shutdown_events, tracker_lock>>
           ELSE /\ camera_shutdown_events' = [camera_shutdown_events EXCEPT ![c] = "set"]
                /\ tracker_lock' = t
                /\ call' = [call EXCEPT ![t].pc = "join"]
        /\ UNCHANGED <<storeVars, tripVars, idxVars, resVars, wrkVars, smoothVars, pipeVars, camera_status,
                       camera_threads, stale_loops, is_running, global_shutdown_flag,
                       aux_threads>>

\* a stop that leaves the status as it was
MarkedAsBefore(status, c) == status

\* line 326: self.camera_status[camera_id] = 'stopped'
MarkedStopped(status, c) == [status EXCEPT ![c] = "stopped"]

\* a join that only returns once the thread has exited
JoinReturnsOnExit(thread) == thread = "exited"

\* thread.join(timeout=5) returns for a thread in any state: at the latest
\* when the timeout has passed
JoinReturns(thread) == thread \in {"alive", "exited"}

\* stop_camera, lines 319-328: join(timeout=5) has returned, because the
\* thread exited or because the timeout passed; the thread and the signal
\* are unregistered and the camera is marked stopped
StopCameraJoined(t) ==
    LET c == call[t].arg
    IN  /\ call[t].pc = "join"
        /\ JoinReturns(camera_threads[c])
        /\ stale_loops' = [stale_loops EXCEPT ![c] = @ \/ camera_threads[c] = "alive"]
        /\ camera_shutdown_events' = [camera_shutdown_events EXCEPT ![c] = "none"]
        /\ camera_threads' = [camera_threads EXCEPT ![c] = "none"]
        /\ camera_status' = MarkedStopped(camera_status, c)
        /\ tracker_lock' = "free"
        /\ call' = [call EXCEPT ![t] = Pop(call[t], "True")]
        \* a thread that is still alive keeps its locals, the result it took
        \* from the result queue among them
        /\ held' = [held EXCEPT ![c] =
               IF camera_threads[c] = "alive"
               THEN [registered |-> 0, stale |-> @.registered]
               ELSE [registered |-> 0, stale |-> @.stale]]
        /\ UNCHANGED <<storeVars, tripVars, idxVars, resVars, wrkVars, smoothVars, fwdVars,
                       queueVars, faceVars, raceVars, last_applied, det_seq, tokenVars, poolVars, lockVars, statusVars, is_running,
                       global_shutdown_flag, aux_threads>>

\* a loop condition that does not look at the signal
SignalIgnored(signal) == TRUE

\* shutdown_event.is_set()
SignalSet(signal) == signal = "set"

\* process_camera, line 883 / 893: the registered capture loop sees its
\* shutdown signal set and exits
CaptureExit(c) ==
    /\ camera_threads[c] = "alive"
    /\ SignalSet(camera_shutdown_events[c])
    /\ camera_threads' = [camera_threads EXCEPT ![c] = "exited"]
    /\ UNCHANGED <<storeVars, tripVars, idxVars, resVars, wrkVars, smoothVars, pipeVars, camera_status,
                   camera_shutdown_events, stale_loops, is_running, tracker_lock,
                   global_shutdown_flag, aux_threads, call>>

\* a capture loop that outlived its join sees its signal and exits
StaleExit(c) ==
    /\ stale_loops[c]
    /\ held[c].stale = 0
    /\ stale_loops' = [stale_loops EXCEPT ![c] = FALSE]
    /\ UNCHANGED <<storeVars, tripVars, idxVars, resVars, wrkVars, smoothVars, pipeVars, camera_status,
                   camera_threads, camera_shutdown_events, is_running, tracker_lock,
                   global_shutdown_flag, aux_threads, call>>

\* start_tracking, lines 330-337: the lock is taken and is_running tested
StartTracking(t) ==
    /\ call[t].pc = "start_tracking"
    /\ tracker_lock = "free"
    /\ IF is_running
       THEN /\ call' = [call EXCEPT ![t] = Pop(call[t], "False")]
            /\ UNCHANGED tracker_lock
       ELSE /\ tracker_lock' = t
            /\ call' = [call EXCEPT ![t].pc = "start_loop", ![t].todo = ConfiguredCameras]
    /\ UNCHANGED <<storeVars, tripVars, idxVars, resVars, wrkVars, smoothVars, pipeVars, camera_status,
                   camera_threads, camera_shutdown_events, stale_loops, is_running,
                   global_shutdown_flag, aux_threads>>

\* start_tracking, lines 338-341: the next camera is handed to start_camera,
\* or after the last one is_running is set and the lock released
StartTrackingLoop(t) ==
    /\ call[t].pc = "start_loop"
    /\ IF call[t].todo = << >>
       THEN /\ is_running' = TRUE
            /\ tracker_lock' = "free"
            /\ call' = [call EXCEPT ![t] = Pop(call[t], "True")]
       ELSE /\ call' = [call EXCEPT ![t].pc = "start_camera",
                                    ![t].stack = Append(@, "start_camera"),
                                    ![t].arg = Head(call[t].todo),
                                    ![t].todo = Tail(@)]
            /\ UNCHANGED <<is_running, tracker_lock>>
    /\ UNCHANGED <<storeVars, tripVars, idxVars, resVars, wrkVars, smoothVars, pipeVars, camera_status,
                   camera_threads, camera_shutdown_events, stale_loops,
                   global_shutdown_flag, aux_threads>>

\* stop_tracking, lines 343-350
StopTracking(t) ==
    /\ call[t].pc = "stop_tracking"
    /\ tracker_lock = "free"
    /\ IF ~is_running /\ ~(\E c \in CameraIds : camera_status[c] = "running")
       THEN /\ call' = [call EXCEPT ![t] = Pop(call[t], "False")]
            /\ UNCHANGED tracker_lock
       ELSE /\ tracker_lock' = t
            /\ call' = [call EXCEPT ![t].pc = "stop_loop", ![t].todo = RegisteredCameras]
    /\ UNCHANGED <<storeVars, tripVars, idxVars, resVars, wrkVars, smoothVars, pipeVars, camera_status,
                   camera_threads, camera_shutdown_events, stale_loops, is_running,
                   global_shutdown_flag, aux_threads>>

\* stop_tracking, lines 352-356
StopTrackingLoop(t) ==
    /\ call[t].pc = "stop_loop"
    /\ IF call[t].todo = << >>
       THEN /\ is_running' = FALSE
            /\ tracker_lock' = "free"
            /\ call' = [call EXCEPT ![t] = Pop(call[t], "True")]
       ELSE /\ call' = [call EXCEPT ![t].pc = "stop_camera",
                                    ![t].stack = Append(@, "stop_camera"),
                                    ![t].arg = Head(call[t].todo),
                                    ![t].todo = Tail(@)]
            /\ UNCHANGED <<is_running, tracker_lock>>
    /\ UNCHANGED <<storeVars, tripVars, idxVars, resVars, wrkVars, smoothVars, pipeVars, camera_status,
                   camera_threads, camera_shutdown_events, stale_loops,
                   global_shutdown_flag, aux_threads>>

\* shutdown, lines 1017-1018: the global flag is set and stop_tracking called
Shutdown(t) ==
    /\ call[t].pc = "idle"
    /\ global_shutdown_flag' = TRUE
    /\ call' = [call EXCEPT ![t] = [pc |-> "stop_tracking", op |-> "shutdown",
                                    stack |-> <<"shutdown", "stop_tracking">>,
                                    arg |-> 0 - 1, todo |-> << >>, ret |-> "none"]]
    /\ UNCHANGED <<storeVars, tripVars, idxVars, resVars, wrkVars, smoothVars, pipeVars, camera_status,
                   camera_threads, camera_shutdown_events, stale_loops, is_running,
                   tracker_lock, aux_threads>>

\* shutdown, lines 1020-1034: the worker and the frame processors are joined
\* with timeouts and the pools shut down
ShutdownAux(t) ==
    /\ call[t].pc = "shutdown_aux"
    /\ call' = [call EXCEPT ![t] = Pop(call[t], "None")]
    /\ UNCHANGED <<storeVars, tripVars, idxVars, resVars, wrkVars, smoothVars, pipeVars, camera_status,
                   camera_threads, camera_shutdown_events, stale_loops, is_running,
                   tracker_lock, global_shutdown_flag, aux_threads>>

\* _embedding_update_worker line 709, _frame_processor_thread line 447: the
\* loop sees the global flag and ends
AuxObserve(a) ==
    /\ global_shutdown_flag
    /\ aux_threads[a] = "alive"
    /\ aux_threads' = [aux_threads EXCEPT ![a] = "exited"]
    /\ UNCHANGED <<storeVars, tripVars, idxVars, resVars, wrkVars, smoothVars, pipeVars, camera_status,
                   camera_threads, camera_shutdown_events, stale_loops, is_running,
                   tracker_lock, global_shutdown_flag, call>>

\* the API thread has taken the return value
Returned(t) ==
    /\ call[t].pc = "returned"
    /\ call' = [call EXCEPT ![t] = NoCall]
    /\ UNCHANGED <<storeVars, tripVars, idxVars, resVars, wrkVars, smoothVars, pipeVars, camera_status,
                   camera_threads, camera_shutdown_events, stale_loops, is_running,
                   tracker_lock, global_shutdown_flag, aux_threads>>

ControlOps == {"start_camera", "stop_camera"}

InitSupervisor == InitTripwire

\* the steps of API thread t
CallerStep(t) ==
    \/ \E op \in ControlOps, c \in CameraArgs : Call(t, op, c)
    \/ \E op \in {"start_tracking", "stop_tracking"} : Call(t, op, 0 - 1)
    \/ Shutdown(t)
    \/ StartCamera(t)
    \/ StopCamera(t)
    \/ StopCameraJoined(t)
    \/ StartTracking(t)
    \/ StartTrackingLoop(t)
    \/ StopTracking(t)
    \/ StopTrackingLoop(t)
    \/ ShutdownAux(t)
    \/ Returned(t)

NextSupervisor ==
    \/ \E t \in Callers : CallerStep(t)
    \/ \E c \in CameraIds : CaptureExit(c)
    \/ \E c \in CameraIds : StaleExit(c)
    \/ \E a \in AuxThreads : AuxObserve(a)

SpecSupervisor == InitSupervisor /\ [][NextSupervisor]_vars

\* what thread t does once it is inside a call; entering a call is up to
\* the API client
ProgressStep(t) ==
    \/ StartCamera(t)
    \/ StopCamera(t)
    \/ StopCameraJoined(t)
    \/ StartTracking(t)
    \/ StartTrackingLoop(t)
    \/ StopTracking(t)
    \/ StopTrackingLoop(t)
    \/ ShutdownAux(t)
    \/ Returned(t)

\* every thread that can go on infinitely often does go on, and the loops of
\* the constructor's threads come round to testing the global flag
SpecSupervisorFair ==
    /\ SpecSupervisor
    /\ \A t \in Callers : SF_vars(ProgressStep(t))
    /\ \A a \in AuxThreads : WF_vars(AuxObserve(a))

(***************************************************************************)
(* Properties of the supervisor.                                           *)
(***************************************************************************)
\* thread t leaves the pc `from` of a top-level call in this step
Leaves(t, from) ==
    /\ call[t].pc = from
    /\ call'[t].pc # from
    /\ Len(call[t].stack) = 1

\* C11: a top-level start_camera returns True exactly when the camera is
\* configured and not running, and then the camera is running with its one
\* registered capture thread and a fresh signal; on a running or unknown
\* camera it returns False and changes nothing (so a second start in a row
\* returns False); stop_camera on a camera that is not running returns
\* False and changes nothing.
C11_ControlIdempotence ==
    [][\A t \in Callers :
          LET c == call[t].arg
          IN  /\ Leaves(t, "start_camera") =>
                    IF c \in CameraIds /\ camera_status[c] # "running"
                    THEN /\ call'[t].ret = "True"
                         /\ camera_status'[c] = "running"
                         /\ camera_threads'[c] = "alive"
                         /\ camera_shutdown_events'[c] = "clear"
                         /\ \A d \in CameraIds \ {c} :
                                /\ camera_status'[d] = camera_status[d]
                                /\ camera_threads'[d] = camera_threads[d]
                    ELSE /\ call'[t].ret = "False"
                         /\ call'[t].pc = "returned"
                         /\ UNCHANGED <<camera_status, camera_threads,
                                        camera_shutdown_events>>
              /\ (Leaves(t, "stop_camera")
                  /\ (c \notin CameraIds \/ camera_status[c] # "running")) =>
                    /\ call'[t].ret = "False"
                    /\ call'[t].pc = "returned"
                    /\ UNCHANGED <<camera_status, camera_threads,
                                   camera_shutdown_events>>]_vars

\* the second start_camera(0) in a row has returned False and camera 0 runs
\* with its one registered thread
C11_Witness ==
    \E t \in Callers :
        /\ call[t].pc = "returned"
        /\ call[t].op = "start_camera"
        /\ call[t].arg = 0
        /\ call[t].ret = "False"
        /\ camera_status[0] = "running"
        /\ camera_threads[0] = "alive"
        /\ camera_shutdown_events[0] = "clear"

\* C15: stop_camera on a running camera sets the camera's signal and goes to
\* the join; the join always comes back, whether the thread has exited or
\* not; the call then marks the camera stopped, unregisters thread and
\* signal and returns True; throughout, the status, thread and signal of
\* every other camera stay as they were.
C15_StopCameraFrame ==
    [][\A t \in Callers :
          LET c == call[t].arg
              OthersUnchanged ==
                  \A d \in CameraIds \ {c} :
                      /\ camera_status'[d] = camera_status[d]
                      /\ camera_threads'[d] = camera_threads[d]
                      /\ camera_shutdown_events'[d] = camera_shutdown_events[d]
          IN  /\ (Leaves(t, "stop_camera") /\ c \in CameraIds
                  /\ camera_status[c] = "running") =>
                    /\ camera_shutdown_events'[c] = "set"
                    /\ call'[t].pc = "join"
                    /\ camera_status'[c] = "running"
                    /\ camera_threads'[c] = camera_threads[c]
                    /\ OthersUnchanged
              /\ call[t].pc = "join" =>
                    /\ ENABLED StopCameraJoined(t)
                    /\ OthersUnchanged
              /\ Leaves(t, "join") =>
                    /\ camera_status'[c] = "stopped"
                    /\ camera_threads'[c] = "none"
                    /\ camera_shutdown_events'[c] = "none"
                    /\ call'[t].pc = "returned"
                    /\ call'[t].ret = "True"]_vars

\* stop_camera(0) has returned True although the capture loop of camera 0
\* was still alive at the end of the join, and camera 1 is still running
C15_Witness ==
    \E t \in Callers :
        /\ call[t].pc = "returned"
        /\ call[t].op = "stop_camera"
        /\ call[t].arg = 0
        /\ call[t].ret = "True"
        /\ stale_loops[0]
        /\ camera_status[0] = "stopped"
        /\ camera_threads[0] = "none"
        /\ camera_shutdown_events[0] = "none"
        /\ camera_status[1] = "running"
        /\ camera_threads[1] = "alive"

\* C12: a start_tracking that finds the service not running terminates: it
\* returns True with every configured camera running and is_running set.
C12_StartAllTerminates ==
    \A t \in Callers :
        (call[t].pc = "start_loop")
            ~> (/\ call[t].pc = "returned"
                /\ call[t].op = "start_tracking"
                /\ call[t].ret = "True"
                /\ is_running
                /\ \A c \in CameraIds : camera_status[c] = "running")

\* C13: a top-level stop_tracking that finds a camera running terminates:
\* it returns True with no camera running and is_running unset.
C13_StopAllTerminates ==
    \A t \in Callers :
        (call[t].pc = "stop_loop" /\ call[t].op = "stop_tracking")
            ~> (/\ call[t].pc = "returned"
                /\ call[t].op = "stop_tracking"
                /\ call[t].ret = "True"
                /\ ~is_running
                /\ \A c \in CameraIds : camera_status[c] # "running")

\* C14: every shutdown() returns.
C14_ShutdownTerminates ==
    \A t \in Callers :
        (call[t].op = "shutdown" /\ call[t].pc # "returned")
            ~> (call[t].op = "shutdown" /\ call[t].pc = "returned")


(***************************************************************************)
(* The graph of the crossing state.                                        *)
(***************************************************************************)
\* the (state, pending direction) pairs of a tripwire: side a is left or
\* top, side b is right or bottom
StatePairs(tripwire) ==
    IF tripwire.direction = "vertical"
    THEN {<<"none", "None">>, <<"left_zone", "left->right">>, <<"right_zone", "right->left">>}
    ELSE {<<"none", "None">>, <<"top_zone", "top->bottom">>, <<"bottom_zone", "bottom->top">>}

\* the state of an entry; an entry that does not exist yet is created in
\* state none by the call that first looks at it
StateOf(state_info) == IF state_info.state = "absent" THEN "none" ELSE state_info.state

C17_MissingRecordStillResets ==
    [][\A k \in Keys :
          (/\ k[1] \notin users
           /\ identity_crossing_state[k].state \notin {"absent", "none"}
           /\ run_hist'[k].events = run_hist[k].events + 1)
          => /\ attendance_records' = attendance_records
             /\ api_forwards' = api_forwards
             /\ identity_crossing_state'[k].state = "none"
             /\ identity_crossing_state'[k].direction = "None"
             /\ global_tracks'[k[1]].work_status # "absent"]_vars

\* E1 was deleted from the store, then crossed the tripwire of camera 0:
\* the run has its event, the state is none, and nothing was stored or
\* forwarded
C17_Witness ==
    LET k == <<"E1", 0, "Entrance">>
    IN  /\ "E1" \notin users
        /\ run_hist[k].events = 1
        /\ run_hist[k].far = 1
        /\ identity_crossing_state[k].state = "none"
        /\ attendance_records = << >>
        /\ api_forwards = 0


(***************************************************************************)
(* Attendance logging, statement by statement: the capture thread detects  *)
(* a crossing (lines 844-846), _log_event looks the user up, persists the  *)
(* row and starts the forward thread (lines 807-816), and the crossing     *)
(* state is reset after _log_event has returned (lines 847-848, 875).  The *)
(* forward runs in a thread of its own (lines 148-182).                    *)
(***************************************************************************)
\* what _send_attendance_to_api comes to: posted, no token after a failed
\* refresh, a status other than 200, or a RequestException
ForwardOutcomes == {"ok", "token_refresh_failed", "http_error", "network_error"}

\* the row log_attendance_event inserts
AttendanceRow(lc) ==
    [user |-> lc.identity, event_type |-> EventType(lc.event), camera_id |-> lc.camera]

\* two threads started for one event
StartedTwice(lc) ==
    << [emp_id |-> lc.identity, event_type |-> EventType(lc.event), status |-> "started"],
       [emp_id |-> lc.identity, event_type |-> EventType(lc.event), status |-> "started"] >>

\* log_attendance_async, lines 148-153: one daemon thread per call
StartedThreads(lc) ==
    << [emp_id |-> lc.identity, event_type |-> EventType(lc.event), status |-> "started"] >>

\* forward threads started in one run
MaxForwards == 1

\* _process_faces, lines 962-980, for a sighting that crosses no tripwire
QuietSighting(identity, c, center_x, center_y) ==
    /\ log_call.pc = "idle"
    /\ EmittedNames(identity, c, center_x, center_y) = << >>
    /\ global_tracks' =
         [global_tracks EXCEPT ![identity] =
            IF global_tracks[identity].work_status = "absent"
            THEN [work_status |-> "working"]
            ELSE global_tracks[identity]]
    /\ last_seen_time' = SeenNow(identity)
    /\ identity_crossing_state' = CheckTripwireCrossing(identity, c, center_x, center_y)
    /\ UNCHANGED <<storeVars, api_forwards, run_hist, idxVars, resVars, wrkVars, smoothVars,
                   supVars, pipeVars>>

\* _process_faces and _check_tripwire_crossing up to the call of _log_event
\* (lines 844-846, 849-851, 865-867, 870-872): the crossing is detected, the
\* crossing state is not yet reset
CrossingDetected(identity, c, center_x, center_y) ==
    LET events == EmittedNames(identity, c, center_x, center_y)
    IN  /\ log_call.pc = "idle"
        /\ Len(forward_tasks) < MaxForwards
        /\ events # << >>
        /\ global_tracks' =
             [global_tracks EXCEPT ![identity] =
                IF global_tracks[identity].work_status = "absent"
                THEN [work_status |-> "working"]
                ELSE global_tracks[identity]]
        /\ last_seen_time' = SeenNow(identity)
        /\ log_call' = [pc |-> "lookup", identity |-> identity, camera |-> c,
                        x |-> center_x, y |-> center_y, event |-> Head(events),
                        persist |-> "none", tasks_before |-> Len(forward_tasks)]
        /\ UNCHANGED <<storeVars, identity_crossing_state, api_forwards, run_hist, idxVars,
                       resVars, wrkVars, smoothVars, supVars, forward_tasks, queueVars, faceVars, raceVars, heldVars, tokenVars, poolVars, lockVars, statusVars>>

\* _log_event, lines 808-812: without a user record the call returns
LogEventLookup ==
    /\ log_call.pc = "lookup"
    /\ log_call' = [log_call EXCEPT !.pc = IF UserRecord(log_call.identity)
                                           THEN "persist" ELSE "reset"]
    /\ UNCHANGED <<storeVars, tripVars, idxVars, resVars, wrkVars, smoothVars, supVars,
                   forward_tasks, queueVars, faceVars, raceVars, heldVars, tokenVars, poolVars, lockVars, statusVars>>

\* _log_event, lines 813-814, and db_utils.log_attendance_event: the row is
\* inserted, or the store refuses (no connection, or the user was deleted
\* since the lookup) and the function prints and returns all the same
LogEventPersist(store_up) ==
    /\ log_call.pc = "persist"
    /\ IF store_up /\ log_call.identity \in users
       THEN /\ attendance_records' = attendance_records \o << AttendanceRow(log_call) >>
            /\ log_call' = [log_call EXCEPT !.pc = "dispatch", !.persist = "stored"]
       ELSE /\ attendance_records' = attendance_records
            /\ log_call' = [log_call EXCEPT !.pc = "dispatch", !.persist = "refused"]
    /\ UNCHANGED <<users, db_faces, tripVars, idxVars, resVars, wrkVars, smoothVars, supVars,
                   forward_tasks, queueVars, faceVars, raceVars, heldVars, tokenVars, poolVars, lockVars, statusVars>>

\* _log_event, line 816: the forward thread is started
LogEventDispatch ==
    /\ log_call.pc = "dispatch"
    /\ forward_tasks' = forward_tasks \o StartedThreads(log_call)
    /\ api_forwards' = api_forwards + 1
    /\ log_call' = [log_call EXCEPT !.pc = "reset"]
    /\ UNCHANGED <<storeVars, identity_crossing_state, global_tracks, last_seen_time, run_hist, idxVars,
                   resVars, wrkVars, smoothVars, supVars, queueVars, faceVars, raceVars, heldVars, tokenVars, poolVars, lockVars, statusVars>>

\* _check_tripwire_crossing after _log_event has returned (lines 847-848
\* and 875): the state goes back to none and the position is recorded
CrossingReset ==
    LET identity == log_call.identity
        c == log_call.camera
    IN  /\ log_call.pc = "reset"
        /\ identity_crossing_state' =
                CheckTripwireCrossing(identity, c, log_call.x, log_call.y)
        /\ log_call' = NoLog
        /\ UNCHANGED <<storeVars, global_tracks, last_seen_time, api_forwards, run_hist, idxVars, resVars, wrkVars,
                       smoothVars, supVars, forward_tasks, queueVars, faceVars, raceVars, heldVars, tokenVars, poolVars, lockVars, statusVars>>

\* _send_attendance_to_api, lines 154-182, in its own thread: every failure
\* is printed and the thread ends
SendAttendanceToApi(i, outcome) ==
    /\ i \in 1..Len(forward_tasks)
    /\ forward_tasks[i].status = "started"
    /\ forward_tasks' = [forward_tasks EXCEPT ![i].status = outcome]
    /\ UNCHANGED <<storeVars, tripVars, idxVars, resVars, wrkVars, smoothVars, supVars,
                   log_call, queueVars, faceVars, raceVars, heldVars, tokenVars, poolVars, lockVars, statusVars>>

InitForward == InitTripwire

NextForward ==
    \/ \E identity \in Identities, c \in CameraIds, x \in Positions, y \in Positions :
            QuietSighting(identity, c, x, y)
    \/ \E identity \in Identities, c \in CameraIds, x \in Positions, y \in Positions :
            CrossingDetected(identity, c, x, y)
    \/ LogEventLookup
    \/ \E store_up \in BOOLEAN : LogEventPersist(store_up)
    \/ LogEventDispatch
    \/ CrossingReset
    \/ \E i \in 1..MaxForwards, outcome \in ForwardOutcomes : SendAttendanceToApi(i, outcome)
    \/ \E identity \in Identities : DeleteUser(identity)
    \/ \E identity \in Identities : AddUser(identity)

SpecForward == InitForward /\ [][NextForward]_vars

C19_CacheBounded == CacheSize <= MaxCacheEntries

\* the cache is full, and a capture thread that resolved an embedding the
\* cache does not hold has passed the store step without an entry
C19_Witness ==
    \E t \in Resolvers :
        /\ CacheSize = MaxCacheEntries
        /\ r_pc[t] = "return"
        /\ SearchOutcome(r_emb[t]).cached
        /\ embedding_cache[EmbHash(r_emb[t])] = NoResult
        /\ \E u \in Resolvers \ {t} : r_pc[u] = "return" /\ r_emb[u] # r_emb[t]


(***************************************************************************)
(* The frame pipeline of a camera: the capture loop publishes frames to    *)
(* frame_queues[c] and takes detection results from result_queues[c]; the  *)
(* frame processor takes frames and publishes results.                     *)
(***************************************************************************)
\* cameras whose stream opens and delivers frames; the capture loop of any
\* other camera stays in its retry of lines 886-889
LiveStreams == {0}

\* the frame processor the constructor started for camera c
ProcessorOf(c) == IF c = 0 THEN "processor0" ELSE "processor1"

\* a put that takes the item whatever the length
PutUnbounded(q, item, maxsize) == [queue |-> Append(q, item), full |-> FALSE]

\* queue.Queue.put(item, timeout=...) on a queue of maxsize places: the
\* item is appended, or queue.Full is raised when the timeout has passed
QueuePut(q, item, maxsize) ==
    IF Len(q) < maxsize
    THEN [queue |-> Append(q, item), full |-> FALSE]
    ELSE [queue |-> q, full |-> TRUE]

\* process_camera, lines 893-903: the signal is clear and a frame was read
CaptureRead(c) ==
    /\ camera_threads[c] = "alive"
    /\ cap_pc[c] = "read"
    /\ camera_shutdown_events[c] = "clear"
    /\ cap_pc' = [cap_pc EXCEPT ![c] = "put"]
    /\ UNCHANGED <<storeVars, tripVars, idxVars, resVars, wrkVars, smoothVars, supVars, fwdVars, faceVars, raceVars,
                   frame_queues, result_queues, proc_pc, heldVars, tokenVars, poolVars, lockVars, statusVars>>

\* process_camera, lines 907-911: put with timeout=0.01; queue.Full is
\* caught and passed
CapturePut(c) ==
    LET put == QueuePut(frame_queues[c], "frame", MaxFrameQueue)
    IN  /\ camera_threads[c] = "alive"
        /\ cap_pc[c] = "put"
        /\ frame_queues' = [frame_queues EXCEPT ![c] = put.queue]
        /\ cap_pc' = [cap_pc EXCEPT ![c] = IF put.full THEN "full_pass" ELSE "get"]
        /\ UNCHANGED <<storeVars, tripVars, idxVars, resVars, wrkVars, smoothVars, supVars,
                       fwdVars, faceVars, raceVars, result_queues, proc_pc, heldVars, tokenVars, poolVars, lockVars, statusVars>>

\* process_camera, lines 913-922: get_nowait; queue.Empty is caught.  The
\* faces of a result resolve to no identity here, so that _process_faces
\* only lists them; CycleResult has the cycles with identified faces.
CaptureGetResult(c) ==
    /\ camera_threads[c] = "alive"
    /\ cap_pc[c] \in {"get", "full_pass"}
    /\ result_queues' = [result_queues EXCEPT ![c] = IF @ = << >> THEN @ ELSE Tail(@)]
    /\ latest_tracking_data' = [latest_tracking_data EXCEPT ![c] =
           IF result_queues[c] = << >> THEN << >>
           ELSE <<[identity |-> "unknown", score |-> 0]>>]
    /\ cap_pc' = [cap_pc EXCEPT ![c] = "read"]
    /\ UNCHANGED <<storeVars, tripVars, idxVars, resVars, wrkVars, smoothVars, supVars, fwdVars,
                   raceVars, frame_queues, proc_pc, kalman_trackers, track_history,
                   last_embedding_update, now, cycle, raw_votes, heldVars, tokenVars, poolVars, lockVars, statusVars>>

\* process_camera, line 883 / 893: the loop sees its signal set and ends
CaptureLoopExit(c) ==
    /\ cap_pc[c] = "read"
    /\ CaptureExit(c)

\* _frame_processor_thread, line 449: get(timeout=1.0) returns a frame; on
\* queue.Empty the loop goes round (line 470)
ProcessorGet(c) ==
    /\ aux_threads[ProcessorOf(c)] = "alive"
    /\ proc_pc[c] \in {"get", "except_detect", "except_full"}
    /\ frame_queues[c] # << >>
    /\ frame_queues' = [frame_queues EXCEPT ![c] = Tail(@)]
    /\ proc_pc' = [proc_pc EXCEPT ![c] = "detect"]
    /\ UNCHANGED <<storeVars, tripVars, idxVars, resVars, wrkVars, smoothVars, supVars, fwdVars, faceVars, raceVars,
                   result_queues, cap_pc, heldVars, tokenVars, poolVars, lockVars, statusVars>>

\* _frame_processor_thread, lines 452-464: future.result(timeout=0.5)
\* returns the faces, or raises and the handler of line 465 is entered
ProcessorDetect(c, detected) ==
    /\ aux_threads[ProcessorOf(c)] = "alive"
    /\ proc_pc[c] = "detect"
    /\ proc_pc' = [proc_pc EXCEPT ![c] = IF detected THEN "put" ELSE "except_detect"]
    /\ UNCHANGED <<storeVars, tripVars, idxVars, resVars, wrkVars, smoothVars, supVars, fwdVars, faceVars, raceVars,
                   frame_queues, result_queues, cap_pc, heldVars, tokenVars, poolVars, lockVars, statusVars>>

\* a processor that also publishes after the handler of line 465
PublishesLate(pc) == pc \in {"put", "except_detect"}

\* line 464 is reached only when future.result(timeout=0.5) has returned
Publishes(pc) == pc = "put"

\* _frame_processor_thread, lines 464-468: put with timeout=0.1; queue.Full
\* is an Exception and enters the handler of line 465
ProcessorPut(c) ==
    LET put == QueuePut(result_queues[c], "faces", MaxResultQueue)
    IN  /\ aux_threads[ProcessorOf(c)] = "alive"
        /\ Publishes(proc_pc[c])
        /\ result_queues' = [result_queues EXCEPT ![c] = put.queue]
        /\ proc_pc' = [proc_pc EXCEPT ![c] = IF put.full THEN "except_full" ELSE "get"]
        /\ UNCHANGED <<storeVars, tripVars, idxVars, resVars, wrkVars, smoothVars, supVars,
                       fwdVars, faceVars, raceVars, frame_queues, cap_pc, heldVars, tokenVars, poolVars, lockVars, statusVars>>

\* _frame_processor_thread, line 447: the loop sees the global flag
ProcessorExit(c) ==
    /\ proc_pc[c] \in {"get", "except_detect", "except_full"}
    /\ AuxObserve(ProcessorOf(c))

InitPipeline == InitTripwire

NextPipeline ==
    \/ CallerStep("api1")
    \/ \E c \in LiveStreams : CaptureRead(c)
    \/ \E c \in LiveStreams : CapturePut(c)
    \/ \E c \in LiveStreams : CaptureGetResult(c)
    \/ \E c \in CameraIds : CaptureLoopExit(c)
    \/ \E c \in LiveStreams : ProcessorGet(c)
    \/ \E c \in LiveStreams, detected \in BOOLEAN : ProcessorDetect(c, detected)
    \/ \E c \in LiveStreams : ProcessorPut(c)
    \/ \E c \in CameraIds : ProcessorExit(c)

SpecPipeline == InitPipeline /\ [][NextPipeline]_vars

\* C20: a frame queue never holds more than its maxsize and a result queue
\* never more than its; a capture loop at its put always can take the step,
\* and the step queues the frame when there is room and otherwise leaves
\* the queue as it is, and either way the loop goes on to its next statement
\* with the thread alive; the same for a frame processor and its result.
C20_BoundedQueuesDropOnFull ==
    [][\A c \in CameraIds :
          LET capture_puts == /\ camera_threads[c] = "alive"
                              /\ cap_pc[c] = "put"
              processor_puts == /\ aux_threads[ProcessorOf(c)] = "alive"
                                /\ proc_pc[c] = "put"
          IN  /\ Len(frame_queues'[c]) <= MaxFrameQueue
              /\ Len(result_queues'[c]) <= MaxResultQueue
              /\ capture_puts => ENABLED CapturePut(c)
              /\ (capture_puts /\ cap_pc'[c] # "put") =>
                    /\ camera_threads'[c] = "alive"
                    /\ cap_pc'[c] \in {"get", "full_pass"}
                    /\ IF Len(frame_queues[c]) = MaxFrameQueue
                       THEN frame_queues'[c] = frame_queues[c]
                       ELSE frame_queues'[c] = Append(frame_queues[c], "frame")
              /\ (camera_threads[c] = "alive" /\ cap_pc[c] = "full_pass") =>
                    ENABLED CaptureGetResult(c)
              /\ (aux_threads[ProcessorOf(c)] = "alive" /\ proc_pc[c] = "except_full"
                  /\ frame_queues[c] # << >>) =>
                    ENABLED ProcessorGet(c)
              /\ processor_puts => ENABLED ProcessorPut(c)
              /\ (processor_puts /\ proc_pc'[c] # "put") =>
                    /\ aux_threads'[ProcessorOf(c)] = "alive"
                    /\ proc_pc'[c] \in {"get", "except_full"}
                    /\ IF Len(result_queues[c]) = MaxResultQueue
                       THEN result_queues'[c] = result_queues[c]
                       ELSE result_queues'[c] = Append(result_queues[c], "faces")]_vars

\* both queues of camera 0 are full, the capture loop has just passed over
\* queue.Full and the frame processor is in its handler after queue.Full,
\* both threads alive
C20_Witness ==
    /\ Len(frame_queues[0]) = MaxFrameQueue
    /\ Len(result_queues[0]) = MaxResultQueue
    /\ cap_pc[0] = "full_pass"
    /\ proc_pc[0] = "except_full"
    /\ camera_threads[0] = "alive"
    /\ aux_threads["processor0"] = "alive"


(***************************************************************************)
(* The passes of the tripwire check that change nothing but the position.  *)
(***************************************************************************)
\* key k was looked at by the sighting of this step
Sighted(k) ==
    \/ identity_crossing_state'[k] # identity_crossing_state[k]
    \/ run_hist'[k] # run_hist[k]

\* C21: a pass over a crossing state in `none` with the position inside the
\* dead zone (the two lines included), in zone_a with the position not past
\* line 2, or in zone_b with the position not before line 1, emits no event
\* and stores no row, and leaves state and pending direction as they were:
\* of the entry only last_position changes.
C21_NoOpPasses ==
    [][\A k \in Keys :
          LET tw == TripwireOf(k[2], k[3])
              old == identity_crossing_state[k]
              new == identity_crossing_state'[k]
              pos == new.last_position
              line1 == (FrameDim(tw) * (2 * tw.position - tw.spacing)) \div 200
              line2 == (FrameDim(tw) * (2 * tw.position + tw.spacing)) \div 200
              a == IF tw.direction = "vertical" THEN "left_zone" ELSE "top_zone"
              b == IF tw.direction = "vertical" THEN "right_zone" ELSE "bottom_zone"
              noop == \/ StateOf(old) = "none" /\ pos >= line1 /\ pos <= line2
                      \/ old.state = a /\ pos <= line2
                      \/ old.state = b /\ pos >= line1
          IN  (Sighted(k) /\ noop) =>
                /\ new.state = StateOf(old)
                /\ new.direction = old.direction
                /\ run_hist'[k].events = 0
                /\ attendance_records' = attendance_records
                /\ api_forwards' = api_forwards]_vars

\* the entry of camera 1's horizontal tripwire, armed from the bottom at
\* 700, was then seen on line 1 itself and further down again: still in
\* bottom_zone with its direction, no event
C21_Witness ==
    LET k == <<"E1", 1, "WorkAreaEntry">>
    IN  /\ run_hist[k].first = 700
        /\ run_hist[k].far = 0
        /\ run_hist[k].events = 0
        /\ run_hist[k].total = 0
        /\ identity_crossing_state[k].state = "bottom_zone"
        /\ identity_crossing_state[k].direction = "bottom->top"
        /\ identity_crossing_state[k].last_position = 450


(***************************************************************************)
(* _process_faces for one accepted face, statement by statement, in the    *)
(* capture threads of the two cameras: the GlobalTrack is updated under    *)
(* global_tracks_lock (lines 967-979); _check_tripwire_crossing is called  *)
(* after the with-block has ended (line 980) and looks the identity up in  *)
(* identity_crossing_state (line 821), creates its dict when it is missing *)
(* (line 822) and passes over the camera's tripwires (lines 823-875).      *)
(***************************************************************************)
\* the camera whose results the thread processes
CameraOf(t) == IF t = "capture0" THEN 0 ELSE 1

\* line 967: the thread enters the with-block
TrackLock(t, identity, center_x, center_y) ==
    /\ ct[t].pc = "idle"
    /\ api_forwards < MaxAttendance
    /\ global_tracks_lock = "free"
    /\ global_tracks_lock' = t
    /\ ct' = [ct EXCEPT ![t] = [pc |-> "track", identity |-> identity, x |-> center_x,
                                y |-> center_y, missing |-> FALSE]]
    /\ UNCHANGED <<storeVars, tripVars, idxVars, resVars, wrkVars, smoothVars, supVars, fwdVars,
                   queueVars, faceVars, crossing_identities, heldVars, tokenVars, poolVars, lockVars, statusVars>>

\* lines 968-979: the GlobalTrack is created or updated; the with-block
\* ends and the lock is released
TrackUpdate(t) ==
    LET identity == ct[t].identity
    IN  /\ ct[t].pc = "track"
        /\ global_tracks' =
             [global_tracks EXCEPT ![identity] =
                IF global_tracks[identity].work_status = "absent"
                THEN [work_status |-> "working"]
                ELSE global_tracks[identity]]
        /\ last_seen_time' = SeenNow(identity)
        /\ global_tracks_lock' = "free"
        /\ ct' = [ct EXCEPT ![t].pc = "lookup"]
        /\ UNCHANGED <<storeVars, identity_crossing_state, api_forwards, run_hist, idxVars,
                       resVars, wrkVars, smoothVars, supVars, fwdVars, queueVars, faceVars,
                       crossing_identities, heldVars, tokenVars, poolVars, lockVars, statusVars>>

\* line 821: identity not in self.identity_crossing_state
CrossingLookup(t) ==
    /\ ct[t].pc = "lookup"
    /\ ct' = [ct EXCEPT ![t].pc = "create",
                        ![t].missing = ct[t].identity \notin crossing_identities]
    /\ UNCHANGED <<storeVars, tripVars, idxVars, resVars, wrkVars, smoothVars, supVars, fwdVars,
                   queueVars, faceVars, global_tracks_lock, crossing_identities, heldVars, tokenVars, poolVars, lockVars, statusVars>>

\* line 822: self.identity_crossing_state[identity] = {} when the lookup
\* found the identity missing: whatever the identity's dict held is gone
CrossingCreate(t) ==
    LET identity == ct[t].identity
    IN  /\ ct[t].pc = "create"
        /\ IF ct[t].missing
           THEN /\ identity_crossing_state' =
                     [k \in Keys |-> IF k[1] = identity THEN NoEntry
                                     ELSE identity_crossing_state[k]]
                /\ crossing_identities' = crossing_identities \cup {identity}
           ELSE UNCHANGED <<identity_crossing_state, crossing_identities, heldVars, tokenVars, poolVars, lockVars, statusVars>>
        /\ ct' = [ct EXCEPT ![t].pc = "pass"]
        /\ UNCHANGED <<storeVars, global_tracks, last_seen_time, api_forwards, run_hist, idxVars, resVars,
                       wrkVars, smoothVars, supVars, fwdVars, queueVars, faceVars,
                       global_tracks_lock, heldVars, tokenVars, poolVars, lockVars, statusVars>>

\* lines 823-875: the pass over the camera's tripwires, with the events it
\* logs
CrossingPass(t) ==
    LET identity == ct[t].identity
        c == CameraOf(t)
        rows == LoggedRows(identity, c, EmittedNames(identity, c, ct[t].x, ct[t].y))
    IN  /\ ct[t].pc = "pass"
        /\ identity_crossing_state' = CheckTripwireCrossing(identity, c, ct[t].x, ct[t].y)
        /\ attendance_records' = attendance_records \o rows
        /\ api_forwards' = api_forwards + Len(rows)
        /\ ct' = [ct EXCEPT ![t] = NoSighting]
        /\ UNCHANGED <<users, db_faces, global_tracks, last_seen_time, run_hist, idxVars, resVars, wrkVars,
                       smoothVars, supVars, fwdVars, queueVars, faceVars, global_tracks_lock,
                       crossing_identities, heldVars, tokenVars, poolVars, lockVars, statusVars>>

InitCrossing == InitTripwire

NextCrossing ==
    \/ \E t \in CaptureThreads, identity \in Identities, pos \in Positions :
            TrackLock(t, identity, pos, pos)
    \/ \E t \in CaptureThreads : TrackUpdate(t)
    \/ \E t \in CaptureThreads : CrossingLookup(t)
    \/ \E t \in CaptureThreads : CrossingCreate(t)
    \/ \E t \in CaptureThreads : CrossingPass(t)

SpecCrossing == InitCrossing /\ [][NextCrossing]_vars

\* C22: a thread that is about to write the crossing-state structure of an
\* identity (the creation of its dict, the pass over the tripwires) holds
\* global_tracks_lock, and no two threads are inside the lookup, creation
\* and pass of the same identity at the same time.
C22_CrossingStateUnderLock ==
    /\ \A t \in CaptureThreads :
          ct[t].pc \in {"create", "pass"} => global_tracks_lock = t
    /\ \A t, u \in CaptureThreads :
          (/\ t # u
           /\ ct[t].pc \in {"lookup", "create", "pass"}
           /\ ct[u].pc \in {"lookup", "create", "pass"})
          => ct[t].identity # ct[u].identity

(***************************************************************************)
(* One capture cycle from the result queue on: process_camera, lines       *)
(* 913-922, with _process_faces (lines 932-996) and _adaptive_threshold.   *)
(* What get_nowait, the resolve calls and the Kalman filter return is an   *)
(* input of the cycle.                                                     *)
(***************************************************************************)
\* the last instant of the clock
MaxTime == 4

\* tuning_settings.get('embedding_update_cooldown', 60), in clock units
Cooldown == 1

\* the scores a resolve call gives an identified face, in hundredths
FaceScores == {62, 90}

\* what _compute_embedding_similarity returns for a face
ResolvedFaces ==
    {[identity |-> "unknown", score |-> 0]} \cup
    {[identity |-> "E1", score |-> s] : s \in FaceScores}

\* the valid faces of a result, resolved: none, one, or an unknown face
\* followed by an identified one
FaceResults ==
    {<< >>} \cup {<<f>> : f \in ResolvedFaces} \cup
    {<<[identity |-> "unknown", score |-> 0], [identity |-> "E1", score |-> 90]>>}

\* the smoothed positions KalmanTracker.update returns
FacePositions == {300, 700}

\* np.mean of the scores recomputed for the embedding history, in hundredths
RecentAverages == {50, 70, 90}

\* _adaptive_threshold, in hundredths: the base threshold unless the
\* identity's track holds at least five embeddings
AdaptiveThreshold(identity, avg_recent_score) ==
    IF /\ identity \in DOMAIN global_tracks
       /\ global_tracks[identity].work_status # "absent"
       /\ track_history[identity] >= 5
    THEN IF avg_recent_score > 80 THEN (RecognitionThreshold * 9) \div 10
         ELSE IF avg_recent_score < 60 THEN (RecognitionThreshold * 11) \div 10
         ELSE RecognitionThreshold
    ELSE RecognitionThreshold

\* an acceptance test that lets every identified face through
AcceptedAny(identity, score, adaptive_thresh) == identity # "unknown"

\* lines 957-961: neither of the two continue statements is taken
Accepted(identity, score, adaptive_thresh) ==
    /\ identity # "unknown"
    /\ ~(score < adaptive_thresh)

\* a snapshot that survives a cycle without result
SnapshotKept(old) == old

\* lines 921-922: TrackingData() on queue.Empty
SnapshotOnEmpty(old) == << >>

\* lines 917-918: the identities and scores _process_faces returns, one per
\* valid face, in the order of the faces
SnapshotOf(faces) == [i \in 1..Len(faces) |-> [identity |-> faces[i].identity,
                                                score |-> faces[i].score]]

\* lines 986-987: current_time - last_update_time > cooldown
CooldownElapsed(last_update_time) == now - last_update_time > Cooldown

\* the raw results of E1 in a result, added to the history of the camera
VotesAfter(hist, faces) ==
    LET seen == SelectSeq(faces, LAMBDA f : f.identity = "E1")
    IN  IF seen = << >> THEN hist
        ELSE IF Len(hist.votes) >= MinVotes THEN [votes |-> hist.votes, more |-> TRUE]
        ELSE [votes |-> Append(hist.votes, [identity |-> "E1", score |-> seen[1].score]),
              more |-> FALSE]

\* lines 919-922: get_nowait raised queue.Empty
CycleEmpty(c) ==
    /\ latest_tracking_data' = [latest_tracking_data EXCEPT
                                   ![c] = SnapshotOnEmpty(latest_tracking_data[c])]
    /\ cycle' = [cycle EXCEPT ![c] = [got |-> "empty", result |-> << >>, thresh |-> 0]]
    /\ UNCHANGED <<storeVars, tripVars, idxVars, resVars, wrkVars, smoothVars, supVars, fwdVars,
                   queueVars, raceVars, kalman_trackers, track_history, last_embedding_update,
                   now, raw_votes, heldVars, tokenVars, poolVars, lockVars, statusVars>>

\* lines 913-918: a result was taken and _process_faces ran over its faces
CycleResult(c, faces, pos, avg_recent_score) ==
    LET thresh == AdaptiveThreshold("E1", avg_recent_score)
        acc == SelectSeq(faces, LAMBDA f : Accepted(f.identity, f.score,
                                    IF f.identity = "unknown" THEN RecognitionThreshold
                                    ELSE AdaptiveThreshold(f.identity, avg_recent_score)))
        face == acc[1]
        rows == LoggedRows(face.identity, c, EmittedNames(face.identity, c, pos, pos))
        can_update == face.score > 80 /\ CooldownElapsed(last_embedding_update[face.identity])
        put == QueuePut(embedding_update_queue,
                        [priority |-> 0 - face.score, update |-> SightingUpdate], MaxQueue)
    IN  /\ api_forwards < MaxAttendance
        /\ latest_tracking_data' = [latest_tracking_data EXCEPT ![c] = SnapshotOf(faces)]
        /\ cycle' = [cycle EXCEPT ![c] = [got |-> "result", result |-> faces,
                                          thresh |-> thresh]]
        /\ raw_votes' = [raw_votes EXCEPT ![c] = VotesAfter(raw_votes[c], faces)]
        /\ IF acc = << >>
           THEN UNCHANGED <<kalman_trackers, global_tracks, last_seen_time, track_history,
                            identity_crossing_state, attendance_records, api_forwards,
                            last_embedding_update, embedding_update_queue>>
           ELSE /\ kalman_trackers' = [kalman_trackers EXCEPT ![face.identity] = pos]
                /\ global_tracks' = [global_tracks EXCEPT
                                        ![face.identity] = [work_status |-> "working"]]
                /\ last_seen_time' = SeenNow(face.identity)
                /\ track_history' = [track_history EXCEPT
                       ![face.identity] = Capped(track_history[face.identity] + 1, 5)]
                /\ identity_crossing_state' = CheckTripwireCrossing(face.identity, c, pos, pos)
                /\ attendance_records' = attendance_records \o rows
                /\ api_forwards' = api_forwards + Len(rows)
                /\ last_embedding_update' =
                       IF can_update
                       THEN [last_embedding_update EXCEPT ![face.identity] = now]
                       ELSE last_embedding_update
                /\ embedding_update_queue' =
                       IF can_update THEN put.queue ELSE embedding_update_queue
        /\ UNCHANGED <<users, db_faces, run_hist, idxVars, resVars, pending_updates, smoothVars,
                       supVars, fwdVars, queueVars, raceVars, now, heldVars, tokenVars, poolVars, lockVars, statusVars>>

\* time passes: more than the smoothing gap, so that the raw results seen
\* before are outside every window
ClockTick ==
    /\ now < MaxTime
    /\ now' = now + 1
    /\ raw_votes' = [c \in DOMAIN raw_votes |-> [votes |-> << >>, more |-> FALSE]]
    /\ UNCHANGED <<storeVars, tripVars, idxVars, resVars, wrkVars, smoothVars, supVars, fwdVars,
                   queueVars, raceVars, latest_tracking_data, kalman_trackers, track_history,
                   last_embedding_update, cycle, heldVars, tokenVars, poolVars, lockVars, statusVars>>

InitFaces == InitTripwire

NextFaces ==
    \/ \E c \in LiveStreams : CycleEmpty(c)
    \/ \E c \in LiveStreams, faces \in FaceResults, pos \in FacePositions,
          avg_recent_score \in RecentAverages : CycleResult(c, faces, pos, avg_recent_score)
    \/ ClockTick

SpecFaces == InitFaces /\ [][NextFaces]_vars

\* C23: once a (camera, identity) track has seen at least 3 raw results
\* inside the window, the (identity, score) published for the face in the
\* tracking snapshot is the smoothed one: the identity with the highest
\* maximum score and the minimum of that maximum and the window's average.
C23_PublishedIsSmoothed ==
    \A c \in LiveStreams :
        LET h == raw_votes[c]
            snapshot == latest_tracking_data[c]
        IN  (Len(h.votes) >= MinVotes /\ ~h.more /\ cycle[c].got = "result")
            => \A i \in 1..Len(snapshot) :
                   snapshot[i].identity = "E1"
                   => /\ snapshot[i].identity = VotedOutput(h.votes).identity
                      /\ snapshot[i].score * VotedOutput(h.votes).den
                            = VotedOutput(h.votes).num

\* the face of identity E1 in the last result of camera c, if it holds one
LastFaceOf(c) ==
    SelectSeq(cycle[c].result, LAMBDA f : f.identity # "unknown")

\* C24: a cycle whose result holds no accepted face (every face is unknown
\* or scores below the adaptive threshold) lists each face in the snapshot
\* and leaves the global tracks, the embedding histories, the position
\* smoothers, the crossing states, the attendance log, the cooldown table
\* and the maintenance queue unchanged.
C24_RejectedFaceHasNoEffect ==
    [][\A c \in LiveStreams :
          (/\ now' = now
           /\ cycle'[c].got = "result"
           /\ \A i \in 1..Len(cycle'[c].result) :
                  \/ cycle'[c].result[i].identity = "unknown"
                  \/ cycle'[c].result[i].score < cycle'[c].thresh)
          => /\ Len(latest_tracking_data'[c]) = Len(cycle'[c].result)
             /\ \A i \in 1..Len(cycle'[c].result) :
                    /\ latest_tracking_data'[c][i].identity = cycle'[c].result[i].identity
                    /\ latest_tracking_data'[c][i].score = cycle'[c].result[i].score
             /\ UNCHANGED <<global_tracks, track_history, kalman_trackers,
                            identity_crossing_state, attendance_records, api_forwards,
                            last_embedding_update, embedding_update_queue>>]_vars

\* an identified face below the raised threshold was published while the
\* identity has a track, a smoother and a crossing state
C24_Witness ==
    /\ cycle[0].got = "result"
    /\ cycle[0].thresh = 66
    /\ LastFaceOf(0) # << >>
    /\ LastFaceOf(0)[1].score = 62
    /\ latest_tracking_data[0] = <<[identity |-> "E1", score |-> 62]>>
    /\ track_history["E1"] = 5
    /\ kalman_trackers["E1"] = 700
    /\ identity_crossing_state[<<"E1", 0, "Entrance">>].last_position = 700

\* C25: the cooldown table records enqueued updates only: whenever the
\* entry of an identity moves, an update of priority -score was appended to
\* the maintenance queue in the same cycle; an update dropped on a full
\* queue leaves the entry as it was.
C25_DroppedUpdateNotCounted ==
    [][\A i \in DOMAIN last_embedding_update :
          last_embedding_update'[i] # last_embedding_update[i]
          => /\ Len(embedding_update_queue') = Len(embedding_update_queue) + 1
             /\ embedding_update_queue'[Len(embedding_update_queue')].update.identity = i
             /\ embedding_update_queue'[Len(embedding_update_queue')].priority < 0 - 80]_vars

PersistedOf(batch) ==
    Len(SelectSeq(batch, LAMBDA u : UserRecord(u.identity)))

\* C26: the rebuild counter counts persisted updates: a flush advances it by
\* the number of updates of the batch that were written to the store, and
\* not at all for updates whose identity has no user record.
C26_CounterCountsPersisted ==
    [][(/\ updates_since_last_rebuild' # updates_since_last_rebuild
        /\ updates_since_last_rebuild' # 0
        /\ updates_since_last_rebuild' < CounterCap)
       => updates_since_last_rebuild' - updates_since_last_rebuild
             = PersistedOf(pending_updates)]_vars

\* C27: the batch of the maintenance worker never holds more than
\* batch_update_threshold (5) updates.
C27_BatchBounded == Len(pending_updates) <= BatchUpdateThreshold

(***************************************************************************)
(* The maintenance worker at shutdown: _embedding_update_worker, lines     *)
(* 709-732, and the part of shutdown() that addresses it, lines 1015-1025. *)
(* aux_threads["update_worker"] is "alive" while the worker is in its     *)
(* loop, "in_get" when the flag was raised while it waited in get,         *)
(* "draining" during the flush after the loop, and "exited" afterwards.    *)
(***************************************************************************)
\* (0, None), the item shutdown() puts to wake the worker
Sentinel == [priority |-> 0, update |-> [identity |-> "None", embedding |-> Emb("dE1b", 0)]]

\* the updates still waiting in the queue
WaitingUpdates == SelectSeq(embedding_update_queue, LAMBDA item : item # Sentinel)

\* an accepted sighting submits its update while the tracker runs
SubmitWhileRunning ==
    /\ ~global_shutdown_flag
    /\ SubmitUpdate

\* shutdown(), line 1015: global_shutdown_flag.set(); the worker is at the
\* head of its loop, inside an iteration (rb_pc), or waiting in get
RaiseShutdownFlag(in_get) ==
    /\ ~global_shutdown_flag
    /\ in_get => rb_pc = "idle"
    /\ global_shutdown_flag' = TRUE
    /\ aux_threads' = [aux_threads EXCEPT
                          !["update_worker"] = IF in_get THEN "in_get" ELSE @]
    /\ UNCHANGED <<storeVars, tripVars, idxVars, resVars, wrkVars, smoothVars, pipeVars,
                   camera_status, camera_threads, camera_shutdown_events, stale_loops,
                   is_running, tracker_lock, call>>

\* shutdown(), lines 1017-1022: the worker is alive, so (0, None) is put
\* with timeout=1.0; queue.Full is passed over
PutSentinel ==
    /\ global_shutdown_flag
    /\ aux_threads["update_worker"] # "exited"
    /\ \A i \in 1..Len(embedding_update_queue) : embedding_update_queue[i] # Sentinel
    /\ embedding_update_queue' = QueuePut(embedding_update_queue, Sentinel, MaxQueue).queue
    /\ embedding_update_queue' # embedding_update_queue
    /\ UNCHANGED <<storeVars, tripVars, idxVars, resVars, pending_updates, smoothVars, supVars,
                   pipeVars>>

\* lines 731-732: after the loop the batch, if any, is flushed
FinalFlush ==
    IF pending_updates = << >>
    THEN /\ aux_threads' = [aux_threads EXCEPT !["update_worker"] = "exited"]
         /\ UNCHANGED <<db_faces, idxVars, pending_updates>>
    ELSE /\ aux_threads' = [aux_threads EXCEPT !["update_worker"] = "draining"]
         /\ ProcessPendingUpdates(pending_updates)

\* line 709: the loop condition finds the flag set
WorkerLeave ==
    /\ global_shutdown_flag
    /\ aux_threads["update_worker"] = "alive"
    /\ rb_pc = "idle"
    /\ FinalFlush
    /\ UNCHANGED <<users, attendance_records, tripVars, resVars, embedding_update_queue,
                   smoothVars, pipeVars, camera_status, camera_threads,
                   camera_shutdown_events, stale_loops, is_running, tracker_lock,
                   global_shutdown_flag, call>>

\* lines 713-722 after the flag was raised during the get: the sentinel
\* breaks the loop, an update is appended to the batch, and a timeout on the
\* empty queue flushes the batch when the last flush is more than 2 s ago
WorkerGetLate(elapsed) ==
    LET place == GetPlace(embedding_update_queue)
        item == embedding_update_queue[place]
    IN  /\ aux_threads["update_worker"] = "in_get"
        /\ IF embedding_update_queue = << >>
           THEN /\ aux_threads' = [aux_threads EXCEPT !["update_worker"] = "alive"]
                /\ IF pending_updates # << >> /\ elapsed
                   THEN ProcessPendingUpdates(pending_updates)
                   ELSE UNCHANGED <<db_faces, idxVars, pending_updates>>
                /\ UNCHANGED embedding_update_queue
           ELSE IF item = Sentinel
           THEN /\ embedding_update_queue' = RemoveAt(embedding_update_queue, place)
                /\ FinalFlush
           ELSE /\ Len(pending_updates) < MaxPending
                /\ embedding_update_queue' = RemoveAt(embedding_update_queue, place)
                /\ pending_updates' = Append(pending_updates, item.update)
                /\ rb_pc' = "check"
                /\ aux_threads' = [aux_threads EXCEPT !["update_worker"] = "alive"]
                /\ UNCHANGED <<db_faces, embeddings, labels, index, embedding_cache,
                               faiss_index_lock, updates_since_last_rebuild,
                               max_updates_before_rebuild>>
        /\ UNCHANGED <<users, attendance_records, tripVars, resVars, smoothVars, pipeVars,
                       camera_status, camera_threads, camera_shutdown_events, stale_loops,
                       is_running, tracker_lock, global_shutdown_flag, call>>

\* the flush after the loop has returned or raised: the thread ends and its
\* batch goes with it
WorkerDone ==
    /\ aux_threads["update_worker"] = "draining"
    /\ rb_pc = "idle"
    /\ aux_threads' = [aux_threads EXCEPT !["update_worker"] = "exited"]
    /\ pending_updates' = << >>
    /\ UNCHANGED <<storeVars, tripVars, idxVars, resVars, embedding_update_queue, smoothVars,
                   pipeVars, camera_status, camera_threads, camera_shutdown_events,
                   stale_loops, is_running, tracker_lock, global_shutdown_flag, call>>

InitDrain == InitWorker

NextDrain ==
    \/ SubmitWhileRunning
    \/ WorkerGet
    \/ \E elapsed \in BOOLEAN : WorkerCheck(elapsed)
    \/ WorkerEmpty
    \/ RebuildNormalize
    \/ RebuildNewIndex
    \/ RebuildAdd
    \/ RebuildClearCache
    \/ RebuildRaises
    \/ \E in_get \in BOOLEAN : RaiseShutdownFlag(in_get)
    \/ PutSentinel
    \/ WorkerLeave
    \/ \E elapsed \in BOOLEAN : WorkerGetLate(elapsed)
    \/ WorkerDone

SpecDrain == InitDrain /\ [][NextDrain]_vars

\* C28: when the maintenance worker has terminated after the shutdown flag
\* was raised, no update is left: neither in the worker's batch nor in its
\* priority queue.
C28_DrainedBeforeExit ==
    aux_threads["update_worker"] = "exited"
    => /\ WaitingUpdates = << >>
       /\ pending_updates = << >>

(***************************************************************************)
(* The failure paths of process_camera, lines 883-929: a source that does  *)
(* not open, a read that fails, an exception in the loop body.  cap_pc is  *)
(* "reopen" after a failed read, "open_failed" during the 5 s sleep after  *)
(* a failed open, and "crashed" during the 10 s sleep of the handler; from *)
(* each the thread is at the head of the outer loop next.                  *)
(***************************************************************************)
OuterLoopHead == {"reopen", "open_failed", "crashed"}

\* lines 898-901: cap.read() returns ret = False; break, then finally
CaptureReadFails(c) ==
    /\ camera_threads[c] = "alive"
    /\ cap_pc[c] = "read"
    /\ ~SignalSet(camera_shutdown_events[c])
    /\ cap_pc' = [cap_pc EXCEPT ![c] = "reopen"]
    /\ UNCHANGED <<storeVars, tripVars, idxVars, resVars, wrkVars, smoothVars, supVars, fwdVars,
                   faceVars, raceVars, frame_queues, result_queues, proc_pc, heldVars, tokenVars, poolVars, lockVars, statusVars>>

\* lines 924-929: a statement of the loop body raises; the handler prints
\* and sleeps, finally releases the source
CaptureRaises(c) ==
    /\ camera_threads[c] = "alive"
    /\ cap_pc[c] \in {"read", "put", "get", "full_pass"}
    /\ cap_pc' = [cap_pc EXCEPT ![c] = "crashed"]
    /\ UNCHANGED <<storeVars, tripVars, idxVars, resVars, wrkVars, smoothVars, supVars, fwdVars,
                   faceVars, raceVars, frame_queues, result_queues, proc_pc, heldVars, tokenVars, poolVars, lockVars, statusVars>>

\* lines 883-892: the outer loop finds the signal clear and opens the
\* source; when it is not open the loop sleeps 5 s and continues
CaptureOpen(c, opened) ==
    /\ camera_threads[c] = "alive"
    /\ cap_pc[c] \in OuterLoopHead
    /\ ~SignalSet(camera_shutdown_events[c])
    /\ cap_pc' = [cap_pc EXCEPT ![c] = IF opened THEN "read" ELSE "open_failed"]
    /\ UNCHANGED <<storeVars, tripVars, idxVars, resVars, wrkVars, smoothVars, supVars, fwdVars,
                   faceVars, raceVars, frame_queues, result_queues, proc_pc, heldVars, tokenVars, poolVars, lockVars, statusVars>>

\* line 883: the outer loop finds the signal set and the thread ends
CaptureOuterExit(c) ==
    /\ cap_pc[c] \in OuterLoopHead
    /\ CaptureExit(c)

InitCapture == InitTripwire

NextCapture ==
    \/ CallerStep("api1")
    \/ \E c \in CameraIds : CaptureRead(c)
    \/ \E c \in CameraIds : CapturePut(c)
    \/ \E c \in CameraIds : CaptureGetResult(c)
    \/ \E c \in CameraIds : CaptureLoopExit(c)
    \/ \E c \in CameraIds : CaptureReadFails(c)
    \/ \E c \in CameraIds : CaptureRaises(c)
    \/ \E c \in CameraIds, opened \in BOOLEAN : CaptureOpen(c, opened)
    \/ \E c \in CameraIds : CaptureOuterExit(c)

SpecCapture == InitCapture /\ [][NextCapture]_vars

\* C29: a registered capture loop exits only when its shutdown signal is
\* set; after a failed open, a failed read or an exception in the loop
\* body, with the signal not set, its next step is to open the source.
C29_ExitsOnlyOnSignal ==
    [][\A c \in CameraIds :
          /\ (camera_threads[c] = "alive" /\ camera_threads'[c] = "exited")
             => camera_shutdown_events[c] = "set"
          /\ (/\ camera_threads[c] = "alive"
              /\ cap_pc[c] \in OuterLoopHead
              /\ camera_shutdown_events[c] # "set")
             => /\ ENABLED CaptureOpen(c, TRUE)
                /\ ~ENABLED CaptureOuterExit(c)]_vars

\* the loop of camera 0 sleeps after an exception and the loop of camera 1
\* after a failed open, both alive with their signals clear
C29_Witness ==
    /\ camera_threads[0] = "alive"
    /\ camera_threads[1] = "alive"
    /\ cap_pc[0] = "crashed"
    /\ cap_pc[1] = "open_failed"
    /\ camera_shutdown_events[0] = "clear"
    /\ camera_shutdown_events[1] = "clear"

(***************************************************************************)
(* The capture loops of one camera and the results of its frame processor. *)
(* A result carries the timestamp of its frame (line 464); the processor   *)
(* of a camera completes one detection after the other, so the timestamps  *)
(* on the result queue are the completion order.  The cycle of a loop is   *)
(* taken in two steps: up to get_nowait (lines 893-914) and from           *)
(* _process_faces on (lines 915-918).                                      *)
(***************************************************************************)
\* detections the processor of a camera completes in one run
MaxDetections == 3

\* _frame_processor_thread, lines 461-464: a detection completes and its
\* result is put with the timestamp of the frame; queue.Full drops it
DetectionCompletes(c) ==
    /\ aux_threads[ProcessorOf(c)] = "alive"
    /\ det_seq[c] < MaxDetections
    /\ det_seq' = [det_seq EXCEPT ![c] = @ + 1]
    /\ result_queues' = [result_queues EXCEPT
                            ![c] = QueuePut(@, det_seq[c] + 1, MaxResultQueue).queue]
    /\ UNCHANGED <<storeVars, tripVars, idxVars, resVars, wrkVars, smoothVars, supVars, fwdVars,
                   faceVars, raceVars, frame_queues, cap_pc, proc_pc, held, last_applied, tokenVars, poolVars, lockVars, statusVars>>

\* lines 893-914 and 919-922: the registered loop finds its signal clear,
\* reads a frame and asks the result queue; without result the snapshot is
\* emptied, with one the loop goes on to apply it
LoopTake(c) ==
    /\ camera_threads[c] = "alive"
    /\ cap_pc[c] = "read"
    /\ ~SignalSet(camera_shutdown_events[c])
    /\ IF result_queues[c] = << >>
       THEN /\ latest_tracking_data' = [latest_tracking_data EXCEPT
                                           ![c] = SnapshotOnEmpty(@)]
            /\ UNCHANGED <<result_queues, held, cap_pc>>
       ELSE /\ result_queues' = [result_queues EXCEPT ![c] = Tail(@)]
            /\ held' = [held EXCEPT ![c].registered = Head(result_queues[c])]
            /\ cap_pc' = [cap_pc EXCEPT ![c] = "apply"]
            /\ UNCHANGED latest_tracking_data
    /\ UNCHANGED <<storeVars, tripVars, idxVars, resVars, wrkVars, smoothVars, supVars, fwdVars,
                   raceVars, frame_queues, proc_pc, kalman_trackers, track_history,
                   last_embedding_update, now, cycle, raw_votes, last_applied, det_seq, tokenVars, poolVars, lockVars, statusVars>>

\* lines 915-918: the registered loop applies the result it took
LoopApply(c) ==
    /\ camera_threads[c] = "alive"
    /\ cap_pc[c] = "apply"
    /\ latest_tracking_data' = [latest_tracking_data EXCEPT
                                   ![c] = <<[identity |-> "unknown", score |-> 0]>>]
    /\ last_applied' = [last_applied EXCEPT ![c] = held[c].registered]
    /\ held' = [held EXCEPT ![c].registered = 0]
    /\ cap_pc' = [cap_pc EXCEPT ![c] = "read"]
    /\ UNCHANGED <<storeVars, tripVars, idxVars, resVars, wrkVars, smoothVars, supVars, fwdVars,
                   raceVars, frame_queues, result_queues, proc_pc, kalman_trackers,
                   track_history, last_embedding_update, now, cycle, raw_votes, det_seq, tokenVars, poolVars, lockVars, statusVars>>

\* lines 915-918 in a loop that stop_camera unregistered while it was alive
StaleApply(c) ==
    /\ stale_loops[c]
    /\ held[c].stale # 0
    /\ latest_tracking_data' = [latest_tracking_data EXCEPT
                                   ![c] = <<[identity |-> "unknown", score |-> 0]>>]
    /\ last_applied' = [last_applied EXCEPT ![c] = held[c].stale]
    /\ held' = [held EXCEPT ![c].stale = 0]
    /\ UNCHANGED <<storeVars, tripVars, idxVars, resVars, wrkVars, smoothVars, supVars, fwdVars,
                   raceVars, queueVars, kalman_trackers, track_history,
                   last_embedding_update, now, cycle, raw_votes, det_seq, tokenVars, poolVars, lockVars, statusVars>>

InitOrder == InitTripwire

NextOrder ==
    \/ CallerStep("api1")
    \/ \E c \in LiveStreams : DetectionCompletes(c)
    \/ \E c \in LiveStreams : LoopTake(c)
    \/ \E c \in LiveStreams : LoopApply(c)
    \/ \E c \in CameraIds : CaptureLoopExit(c)
    \/ \E c \in LiveStreams : StaleApply(c)
    \/ \E c \in CameraIds : StaleExit(c)

SpecOrder == InitOrder /\ [][NextOrder]_vars

\* C31: within one camera the results are applied in the order in which
\* their detections completed: the timestamp of the result applied never
\* goes back.
C31_AppliedInCompletionOrder ==
    [][\A c \in CameraIds : last_applied'[c] >= last_applied[c]]_vars

\* C38: a capture loop that stop_camera has unregistered applies no result
\* while the camera has a registered live loop: at most one loop per camera
\* works on the results.
C38_OneLoopPerCamera ==
    \A c \in CameraIds : ~(camera_threads[c] = "alive" /\ stale_loops[c] /\ held[c].stale # 0)

\* C32: a detection that timed out or raised publishes nothing: the result
\* queue of a camera grows only by the put that follows a returned
\* detection, the processor goes from the handler to the next frame, and a
\* frame processor ends only when the global shutdown flag is set.
C32_FailedDetectionSkipsFrame ==
    [][\A c \in LiveStreams :
          /\ Len(result_queues'[c]) > Len(result_queues[c]) => proc_pc[c] = "put"
          /\ proc_pc'[c] = "put" => proc_pc[c] \in {"put", "detect"}
          /\ proc_pc[c] = "except_detect" => proc_pc'[c] \in {"except_detect", "detect"}
          /\ (aux_threads[ProcessorOf(c)] = "alive" /\ proc_pc[c] = "except_detect"
              /\ frame_queues[c] # << >>) => ENABLED ProcessorGet(c)
          /\ (aux_threads[ProcessorOf(c)] = "alive"
              /\ aux_threads'[ProcessorOf(c)] # "alive") => global_shutdown_flag]_vars

\* the processor of camera 0 is in the handler after a failed detection,
\* with an earlier result still on the result queue and the next frame
\* waiting
C32_Witness ==
    /\ proc_pc[0] = "except_detect"
    /\ aux_threads[ProcessorOf(0)] = "alive"
    /\ Len(result_queues[0]) = 1
    /\ Len(frame_queues[0]) = 1
    /\ ~global_shutdown_flag

(***************************************************************************)
(* APILogger: _send_attendance_to_api (lines 154-182) and _refresh_token   *)
(* (lines 122-147), statement by statement, for two forward tasks.  Time   *)
(* is counted in units of 300 s, the margin of the expiry test.            *)
(***************************************************************************)
\* the last instant of the clock of the forward tasks
MaxApiTime == 3

\* the 300 of `self.token_expiry - 300`, in clock units
ExpiryMargin == 1

\* data.get('expires_in', 3600) of the token responses, in clock units
ExpiresIn == 2

\* time.time() < self.token_expiry - 300
TokenFresh == api_now < token_expiry - ExpiryMargin

otherTokenVars == <<storeVars, tripVars, idxVars, resVars, wrkVars, smoothVars, supVars, fwdVars,
                    queueVars, faceVars, raceVars, heldVars, poolVars, lockVars, statusVars>>

\* log_attendance_async, lines 148-153: the thread of a forward task starts
TaskStart(i) ==
    /\ send[i].pc = "idle"
    /\ send' = [send EXCEPT ![i].pc = "check"]
    /\ UNCHANGED <<otherTokenVars, access_token, token_expiry, token_lock, api_now>>

\* line 155: `if not self.access_token or time.time() >= self.token_expiry - 300`,
\* read without token_lock
TaskCheck(i) ==
    /\ send[i].pc = "check"
    /\ send' = [send EXCEPT ![i].pc = IF access_token = "" \/ ~TokenFresh
                                      THEN "refresh" ELSE "post"]
    /\ UNCHANGED <<otherTokenVars, access_token, token_expiry, token_lock, api_now>>

\* _refresh_token, lines 123-125: token_lock is taken; a token that is
\* fresh by now returns True at once
RefreshEnter(i) ==
    /\ send[i].pc = "refresh"
    /\ token_lock = 0
    /\ IF TokenFresh
       THEN /\ send' = [send EXCEPT ![i].pc = "post"]
            /\ UNCHANGED token_lock
       ELSE /\ send' = [send EXCEPT ![i].pc = "request"]
            /\ token_lock' = i
    /\ UNCHANGED <<otherTokenVars, access_token, token_expiry, api_now>>

\* _refresh_token, lines 132-147: the token request returns or raises; the
\* token and its expiry are assigned and the lock is released.  A failed
\* refresh returns False and the task skips the event (lines 156-158).
RefreshDone(i, granted) ==
    /\ send[i].pc = "request"
    /\ token_lock = i
    /\ access_token' = IF granted THEN "token" ELSE ""
    /\ token_expiry' = IF granted THEN api_now + ExpiresIn ELSE 0
    /\ token_lock' = 0
    /\ send' = [send EXCEPT ![i].pc = IF granted THEN "post" ELSE "skipped"]
    /\ UNCHANGED <<otherTokenVars, api_now>>

\* lines 168-172: the request is sent with the header built from
\* self.access_token as it is now
TaskPost(i) ==
    /\ send[i].pc = "post"
    /\ send' = [send EXCEPT ![i] = [pc |-> "sent", token |-> access_token]]
    /\ UNCHANGED <<otherTokenVars, access_token, token_expiry, token_lock, api_now>>

\* the thread of a forward task has ended; the next event starts another
TaskEnds(i) ==
    /\ send[i].pc \in {"sent", "skipped"}
    /\ send' = [send EXCEPT ![i] = NoSend]
    /\ UNCHANGED <<otherTokenVars, access_token, token_expiry, token_lock, api_now>>

\* 300 s pass
ApiClockTick ==
    /\ api_now < MaxApiTime
    /\ api_now' = api_now + 1
    /\ UNCHANGED <<otherTokenVars, access_token, token_expiry, token_lock, send>>

InitToken == InitTripwire

NextToken ==
    \/ \E i \in ForwardTasks : TaskStart(i)
    \/ \E i \in ForwardTasks : TaskCheck(i)
    \/ \E i \in ForwardTasks : RefreshEnter(i)
    \/ \E i \in ForwardTasks, granted \in BOOLEAN : RefreshDone(i, granted)
    \/ \E i \in ForwardTasks : TaskPost(i)
    \/ \E i \in ForwardTasks : TaskEnds(i)
    \/ ApiClockTick

SpecToken == InitToken /\ [][NextToken]_vars

\* C33: under every interleaving of the forward tasks an attendance request
\* is sent with a non-empty access token.
C33_SentWithToken ==
    \A i \in ForwardTasks : send[i].pc = "sent" => send[i].token # ""

(***************************************************************************)
(* Eviction of idle tracks.  _cleanup_old_tracks (lines 998-1012) is the   *)
(* only code that deletes a GlobalTrack or a KalmanTracker; no statement   *)
(* of the repository calls it, so it is a step of no thread and of no      *)
(* specification below.                                                    *)
(***************************************************************************)
\* the last instant of the clock of the idle-track specification
MaxIdle == 7

\* GLOBAL_TRACK_TIMEOUT = 300 (seconds), in clock units of 60 s
GlobalTrackTimeout == 5

\* line 1003: current_time - track.last_seen_time > GLOBAL_TRACK_TIMEOUT
Expired(identity) ==
    /\ global_tracks[identity] # NoTrack
    /\ now - last_seen_time[identity] > GlobalTrackTimeout

\* _cleanup_old_tracks, lines 998-1012: every expired track is deleted
\* together with its Kalman tracker
CleanupOldTracks ==
    /\ global_tracks' = [i \in DOMAIN global_tracks |->
                            IF Expired(i) THEN NoTrack ELSE global_tracks[i]]
    /\ kalman_trackers' = [i \in DOMAIN kalman_trackers |->
                            IF i \in DOMAIN global_tracks /\ Expired(i)
                            THEN "none" ELSE kalman_trackers[i]]
    /\ UNCHANGED <<storeVars, identity_crossing_state, last_seen_time, api_forwards, run_hist,
                   idxVars, resVars, wrkVars, smoothVars, supVars, fwdVars, queueVars,
                   latest_tracking_data, track_history, last_embedding_update, now, cycle,
                   raw_votes, raceVars, heldVars, tokenVars, poolVars, lockVars, statusVars>>

\* a minute passes while the system runs
IdleTick ==
    /\ now < MaxIdle
    /\ now' = now + 1
    /\ UNCHANGED <<storeVars, tripVars, idxVars, resVars, wrkVars, smoothVars, supVars, fwdVars,
                   queueVars, latest_tracking_data, kalman_trackers, track_history,
                   last_embedding_update, cycle, raw_votes, raceVars, heldVars, tokenVars, poolVars, lockVars, statusVars>>

InitEvict == InitTripwire

\* the threads that run: the capture loops, which call _process_faces, and
\* the clock
NextEvict ==
    \/ \E identity \in Identities, c \in CameraIds, x \in Positions :
            AcceptedSighting(identity, c, x, x)
    \/ IdleTick

SpecEvict == InitEvict /\ [][NextEvict]_vars

\* time does not stop
SpecEvictFair == SpecEvict /\ WF_vars(IdleTick)

\* C34: a track that had no accepted sighting for more than 300 s is
\* eventually evicted (its record is removed from global_tracks) while the
\* system runs
C34_IdleTrackEvicted ==
    \A i \in Identities : Expired(i) ~> (global_tracks[i] = NoTrack)

(***************************************************************************)
(* The result cache against the index search, one resolver, a fixed index. *)
(***************************************************************************)
\* the embeddings the single capture thread resolves: those of the index
\* model and a face that agrees with the sighting of E1 on its first 16
\* components only
MemoQueries == QueryEmbeddings \cup {Emb("dE2x", 2)}

InitMemo == InitIndex

\* one thread calls _compute_embedding_similarity again and again; the
\* maintenance worker has nothing to flush
NextMemo ==
    \/ \E e \in MemoQueries : ResolveCall("cam0", e)
    \/ ResolveSearch("cam0")
    \/ ResolveStore("cam0")
    \/ ResolveReturn("cam0")

SpecMemo == InitMemo /\ [][NextMemo]_vars

\* C35: on a fixed index, what a resolve call returns for an embedding is
\* what the index search gives for that embedding, whether or not the cache
\* answered
C35_CacheAnswersAsSearch ==
    r_pc["cam0"] = "return" => r_result["cam0"] = SearchOutcome(r_emb["cam0"]).result

\* C37: when no rebuild is running and the last one went through, every
\* entry of the result cache is what the index in place gives for its
\* embedding: no entry was computed against an index that was replaced
C37_NoEntryFromReplacedIndex ==
    (faiss_index_lock = "free" /\ rb_pc = "idle" /\ TripleConsistent) =>
        \A e \in QueryEmbeddings :
            embedding_cache[EmbHash(e)] \in {NoResult, SearchOutcome(e).result}

(***************************************************************************)
(* MemoryPool and the frame buffers of one camera: the capture loop takes  *)
(* a buffer from the pool, the frame processor gives one back.             *)
(***************************************************************************)
\* arrays the model lets the program allocate
MaxBuffers == 4

\* places of frame_pool (queue.Queue(maxsize=1000), scaled down)
MaxPool == 2

otherPoolVars == <<storeVars, tripVars, idxVars, resVars, wrkVars, smoothVars, supVars, fwdVars,
                   queueVars, faceVars, raceVars, heldVars, tokenVars, lockVars, statusVars>>

\* MemoryPool.get_frame_buffer, lines 62-69: the buffer at the head of the
\* pool when its shape is the one asked for, a new array otherwise; a
\* buffer of another shape is taken out of the pool and dropped
GetFrameBuffer(same_shape) ==
    IF frame_pool # << >> /\ same_shape
    THEN [buffer |-> Head(frame_pool), pool |-> Tail(frame_pool), allocated |-> allocated]
    ELSE [buffer |-> allocated + 1,
          pool |-> IF frame_pool # << >> THEN Tail(frame_pool) ELSE frame_pool,
          allocated |-> allocated + 1]

\* MemoryPool.return_frame_buffer, lines 70-74: put_nowait, queue.Full is
\* passed over
ReturnFrameBuffer(pool, buffer) ==
    IF Len(pool) < MaxPool THEN Append(pool, buffer) ELSE pool

\* process_camera, lines 907-911: a buffer is acquired, the frame is copied
\* into it and the buffer is put on the frame queue, or dropped when the
\* queue is full
CaptureFrame(same_shape) ==
    LET got == GetFrameBuffer(same_shape)
    IN  /\ got.allocated <= MaxBuffers
        /\ frame_pool' = got.pool
        /\ allocated' = got.allocated
        /\ queued_frames' = IF Len(queued_frames) < MaxFrameQueue
                            THEN Append(queued_frames, got.buffer)
                            ELSE queued_frames
        /\ UNCHANGED <<enhanced_frame, detecting, otherPoolVars>>

\* _frame_processor_thread, lines 449-461: a frame is taken, enhanced into a
\* new array (no wider than 960, so not resized) and _detect_faces is
\* submitted to the detection pool with that array
ProcessorSubmit ==
    /\ enhanced_frame.pc = "get"
    /\ queued_frames # << >>
    /\ allocated < MaxBuffers
    /\ queued_frames' = Tail(queued_frames)
    /\ allocated' = allocated + 1
    /\ enhanced_frame' = [pc |-> "wait", buf |-> allocated + 1]
    /\ detecting' = detecting \cup {allocated + 1}
    /\ UNCHANGED <<frame_pool, otherPoolVars>>

\* _detect_faces, lines 475-480, in a thread of the detection pool: the
\* task ends and reads its array no more
DetectFacesEnds(buffer) ==
    /\ buffer \in detecting
    /\ detecting' = detecting \ {buffer}
    /\ UNCHANGED <<frame_pool, allocated, queued_frames, enhanced_frame, otherPoolVars>>

\* lines 462-468: future.result returns or raises what the task raised, and
\* enhanced_frame is given to the pool
ProcessorResult ==
    /\ enhanced_frame.pc = "wait"
    /\ enhanced_frame.buf \notin detecting
    /\ frame_pool' = ReturnFrameBuffer(frame_pool, enhanced_frame.buf)
    /\ enhanced_frame' = [pc |-> "get", buf |-> 0]
    /\ UNCHANGED <<allocated, queued_frames, detecting, otherPoolVars>>

\* lines 462-468: future.result(timeout=0.5) raises TimeoutError while the
\* task runs on; the handler prints and enhanced_frame is given to the pool
ProcessorTimeout ==
    /\ enhanced_frame.pc = "wait"
    /\ enhanced_frame.buf \in detecting
    /\ frame_pool' = ReturnFrameBuffer(frame_pool, enhanced_frame.buf)
    /\ enhanced_frame' = [pc |-> "get", buf |-> 0]
    /\ UNCHANGED <<allocated, queued_frames, detecting, otherPoolVars>>

InitPool == InitTripwire

NextPool ==
    \/ \E same_shape \in BOOLEAN : CaptureFrame(same_shape)
    \/ ProcessorSubmit
    \/ \E buffer \in 1..MaxBuffers : DetectFacesEnds(buffer)
    \/ ProcessorResult
    \/ ProcessorTimeout

SpecPool == InitPool /\ [][NextPool]_vars

\* the places a buffer is available from: the pool, and the frame queue
\* once a capture loop had it from the pool and wrote a frame into it
Range(seq) == {seq[i] : i \in 1..Len(seq)}

\* C36: an array a detection task still reads is neither in the pool nor in
\* the hands of a second acquirer
C36_BufferExclusive ==
    \A buffer \in detecting :
        buffer \notin Range(frame_pool) /\ buffer \notin Range(queued_frames)

(***************************************************************************)
(* get_status beside the control operations of one API thread.             *)
(***************************************************************************)
\* get_status, lines 273-279, called from another API thread: the lock is
\* taken, the flag is read, the status map is copied, the lock is released
GetStatus ==
    /\ tracker_lock = "free"
    /\ status_copy' = [is_service_running |-> is_running,
                       camera_statuses |-> camera_status]
    /\ UNCHANGED <<storeVars, tripVars, idxVars, resVars, wrkVars, smoothVars, supVars, fwdVars,
                   queueVars, faceVars, raceVars, heldVars, tokenVars, poolVars, lockVars>>

InitStatus == InitSupervisor

NextStatus ==
    \/ CallerStep("api1")
    \/ \E c \in CameraIds : CaptureExit(c)
    \/ \E c \in CameraIds : StaleExit(c)
    \/ \E a \in AuxThreads : AuxObserve(a)
    \/ GetStatus

SpecStatus == InitStatus /\ [][NextStatus]_vars

\* the status map agrees with the two registries
StatusMatchesRegistry ==
    \A c \in CameraIds :
        /\ camera_status[c] \in {"running", "stopped"}
        /\ camera_status[c] = "running" <=>
              (camera_threads[c] # "none" /\ camera_shutdown_events[c] = "clear")

\* C39: whenever tracker_lock is free, every configured camera is running
\* or stopped, and running exactly when a capture thread and a shutdown
\* signal that is not set are registered for it; get_status returns the
\* status map as it is while the lock is free
C39_StatusMatchesRegistry ==
    /\ [](tracker_lock = "free" => StatusMatchesRegistry)
    /\ [][status_copy' # status_copy =>
            /\ tracker_lock = "free"
            /\ status_copy'.camera_statuses = camera_status
            /\ camera_status' = camera_status]_vars

\* camera 0 runs, camera 1 was started and stopped again while its loop
\* outlived the join, the lock is free and get_status has returned that map
C39_Witness ==
    /\ tracker_lock = "free"
    /\ camera_status[0] = "running" /\ camera_threads[0] = "alive"
    /\ camera_status[1] = "stopped" /\ stale_loops[1]
    /\ status_copy.camera_statuses = camera_status

(***************************************************************************)
(* The four re-entrant locks: global_tracks_lock, embedding_update_lock,   *)
(* embedding_cache_lock and faiss_index_lock (lines 254-257), as the       *)
(* capture threads and the maintenance worker take and release them.       *)
(***************************************************************************)
LockNames == {"tracks", "update", "cache", "index"}

LockThreads == {"cam0", "cam1", "worker"}

Acq(lock) == [op |-> "acquire", lock |-> lock]
Rel(lock) == [op |-> "release", lock |-> lock]

\* a resolve call that keeps embedding_cache_lock over the index search
CaptureProgramNested ==
    << Acq("cache"), Acq("index"), Rel("index"), Rel("cache"), Acq("cache"), Rel("cache"),
       Acq("tracks"), Rel("tracks"), Acq("update"), Rel("update") >>

\* the with-blocks a capture thread passes for one face:
\* _compute_embedding_similarity looks the cache up (536-540), searches the
\* index (541-576) and inserts into the cache (577-579); _process_faces
\* updates the track (967-979) and tests the update cooldown (983-988)
CaptureProgram ==
    << Acq("cache"), Rel("cache"), Acq("index"), Rel("index"), Acq("cache"), Rel("cache"),
       Acq("tracks"), Rel("tracks"), Acq("update"), Rel("update") >>

\* _process_pending_updates, lines 735-757: the update lock around the
\* whole call, inside it the index lock around the rebuild, inside that the
\* cache lock around the clear
WorkerProgram ==
    << Acq("update"), Acq("index"), Acq("cache"), Rel("cache"), Rel("index"), Rel("update") >>

Program(t) == IF t = "worker" THEN WorkerProgram ELSE CaptureProgram

\* the with-blocks a thread leaves out, as (place, next place): a cache hit
\* returns at line 540; an unknown or rejected face continues at 958 / 961;
\* a score of at most 0.8 skips the cooldown test; a flush below the rebuild
\* threshold, or over an empty store, skips the rebuild (745, 747)
Branches(t) == IF t = "worker" THEN {<<1, 5>>} ELSE {<<2, 6>>, <<6, 10>>, <<8, 10>>}

AtEnd(t) == lt[t] = Len(Program(t))

NextOp(t) == Program(t)[lt[t] + 1]

otherLockVars == <<storeVars, tripVars, idxVars, resVars, wrkVars, smoothVars, supVars, fwdVars,
                   queueVars, faceVars, raceVars, heldVars, tokenVars, poolVars, statusVars>>

\* a with-statement is entered: RLock.acquire by a thread that finds the
\* lock free or its own
LockAcquire(t) ==
    /\ ~AtEnd(t)
    /\ NextOp(t).op = "acquire"
    /\ lock_owner[NextOp(t).lock] \in {"free", t}
    /\ lock_owner' = [lock_owner EXCEPT ![NextOp(t).lock] = t]
    /\ lt' = [lt EXCEPT ![t] = @ + 1]
    /\ UNCHANGED otherLockVars

\* a with-statement is left
LockRelease(t) ==
    /\ ~AtEnd(t)
    /\ NextOp(t).op = "release"
    /\ lock_owner' = [lock_owner EXCEPT ![NextOp(t).lock] = "free"]
    /\ lt' = [lt EXCEPT ![t] = @ + 1]
    /\ UNCHANGED otherLockVars

\* a return or continue that leaves with-blocks out
LockBranch(t) ==
    /\ \E b \in Branches(t) : lt[t] = b[1] /\ lt' = [lt EXCEPT ![t] = b[2]]
    /\ UNCHANGED <<lock_owner, otherLockVars>>

\* the next face, or the next flush
LockRestart(t) ==
    /\ AtEnd(t)
    /\ lt' = [lt EXCEPT ![t] = 0]
    /\ UNCHANGED <<lock_owner, otherLockVars>>

InitLocks == InitTripwire

NextLocks ==
    \E t \in LockThreads : LockAcquire(t) \/ LockRelease(t) \/ LockBranch(t) \/ LockRestart(t)

SpecLocks == InitLocks /\ [][NextLocks]_vars

\* the thread is at an acquire
Wants(t) == ~AtEnd(t) /\ NextOp(t).op = "acquire"

\* the thread waits: the lock it asks for is held by another thread
Waits(t) == Wants(t) /\ lock_owner[NextOp(t).lock] \notin {"free", t}

HeldBy(t) == {l \in LockNames : lock_owner[l] = t}

\* the one order the locks are nested in
LockRank(lock) ==
    IF lock = "tracks" THEN 0 ELSE IF lock = "update" THEN 1 ELSE IF lock = "index" THEN 2 ELSE 3

\* every thread of S waits for a lock another thread of S holds
Deadlocked(S) == \A t \in S : Waits(t) /\ lock_owner[NextOp(t).lock] \in S

\* C40: no set of threads waits in a circle, and a thread that asks for a
\* lock while it holds others holds only locks that come before it in the
\* order update, index, cache
C40_NoDeadlock ==
    /\ \A S \in (SUBSET LockThreads) \ {{}} : ~Deadlocked(S)
    /\ \A t \in LockThreads :
          Wants(t) => \A h \in HeldBy(t) \ {NextOp(t).lock} :
                          LockRank(h) < LockRank(NextOp(t).lock)

\* the worker, inside the rebuild with the update and the index lock, waits
\* for the cache lock a capture thread holds for its insertion, while the
\* other capture thread waits for the index lock
C40_Witness ==
    /\ Waits("worker") /\ HeldBy("worker") = {"update", "index"}
    /\ lock_owner["cache"] = "cam0" /\ lt["cam0"] = 5
    /\ Waits("cam1")


============================================================================
